---- MODULE Spec2Model ----
(***************************************************************************)
(* Model of the `syntax` crate: the command/pipeline renderers             *)
(* (src/src/render/mod.rs), the command model (src/src/cmd/mod.rs) and the *)
(* template parsers and evaluator (src/src/tmpl/mod.rs).                   *)
(*                                                                         *)
(* A Rust `char` is modelled as its Unicode scalar value (a number), a     *)
(* `String` as a sequence of chars, and `as_bytes()` as the UTF-8 encoding *)
(* of that sequence, so that the byte-indexed scans of the parsers are     *)
(* translated as written.  String literals of the source appear as tuples  *)
(* of scalar values with the text in a comment.                            *)
(***************************************************************************)
EXTENDS Integers, Sequences, FiniteSets, TLC

VARIABLES
    s,          \* the string handed to a quoting function
    cmd,        \* the CommandSpec handed to a renderer
    pipe,       \* the PipelineSpec handed to a renderer
    input,      \* the template source handed to a parser
    tpl,        \* the Result<Template, SyntaxError> of the parse
    resolvers,  \* the VariableResolver and FuncResolver handed to render
    op,         \* the operation applied
    out,        \* its Result<String, SyntaxError>
    calls,      \* the resolver calls Template::render made, in order
    scan        \* a parser followed one loop iteration at a time: i, segs, lit

vars == <<s, cmd, pipe, input, tpl, resolvers, op, out, calls, scan>>

(***************************************************************************)
(* Bounds of the model.                                                    *)
(***************************************************************************)
MaxLen == 3
MaxWord == 2
MaxArgs == 2
MaxArgLen == 1
MaxEnvLen == 1
MaxPathLen == 1
MaxPipe == 2
MaxTokens == 4
MaxMarkup == 4
MaxBlock == 3
MaxBrace == 4
MaxEval == 4
MaxScan == 3

(***************************************************************************)
(* Strings.                                                                *)
(***************************************************************************)
\* All strings over the alphabet A of at most n chars.
Strs(A, n) == UNION { [1..k -> A] : k \in 0..n }

Range(f) == { f[i] : i \in DOMAIN f }

\* Concatenation of a sequence of strings.
RECURSIVE Concat(_)
Concat(ss) == IF ss = <<>> THEN <<>> ELSE Head(ss) \o Concat(Tail(ss))

\* str::replace(from, to) for a one-char pattern `from`.
RECURSIVE replace(_, _, _)
replace(str, from, to) ==
    IF str = <<>> THEN <<>>
    ELSE (IF Head(str) = from THEN to ELSE <<Head(str)>>) \o replace(Tail(str), from, to)

\* [String]::join(sep)
RECURSIVE join(_, _)
join(parts, sep) ==
    IF parts = <<>> THEN <<>>
    ELSE IF Len(parts) = 1 THEN parts[1]
    ELSE parts[1] \o sep \o join(Tail(parts), sep)

\* Result<String, SyntaxError>
Ok(text) == [ok |-> TRUE, text |-> text]
Err(kind) == [ok |-> FALSE, err |-> kind]
NoResult == [ok |-> FALSE, err |-> "none"]
\* no parser is being followed
NoScan == [state |-> "idle", i |-> 0, segs |-> <<>>, lit |-> <<>>]

NoResolvers == [vars |-> "none", funcs |-> "none"]

(***************************************************************************)
(* Quoting (render/mod.rs).                                                *)
(***************************************************************************)
is_ascii_alphanumeric(c) == c \in 48..57 \/ c \in 65..90 \/ c \in 97..122

\* 'a'..='z' | 'A'..='Z' | '0'..='9' | '_' | '-' | '.' | '/' | ':' | '+' | '%' | '@' | '=' | ','
simple_char(c) ==
    is_ascii_alphanumeric(c) \/ c \in {95, 45, 46, 47, 58, 43, 37, 64, 61, 44}

is_simple_word(str) == \A i \in 1..Len(str) : simple_char(str[i])

\* wraps without escaping the embedded single quotes
quote_sh_noescape(str) == <<39>> \o str \o <<39>>

quote_sh(str) ==
    IF str = <<>> THEN <<39, 39>>                               \* ''
    ELSE <<39>> \o replace(str, 39, <<39, 34, 39, 34, 39>>) \o <<39>>   \* ' -> '"'"'

\* never quotes the program
quote_prog_bare(p) == p

quote_prog(p) == IF is_simple_word(p) THEN p ELSE quote_sh(p)

\* the POSIX class plus '\\'
is_simple_word_win(str) ==
    str # <<>> /\ \A i \in 1..Len(str) : (simple_char(str[i]) \/ str[i] = 92)

quote_win(str) ==
    IF is_simple_word_win(str) THEN str
    ELSE <<34>> \o replace(str, 34, <<34, 34>>) \o <<34>>       \* " -> ""

quote_prog_win(p) == IF is_simple_word_win(p) THEN p ELSE quote_win(p)

(***************************************************************************)
(* Command model (cmd/mod.rs).                                             *)
(***************************************************************************)
\* Option<T>
None == [some |-> FALSE, v |-> <<>>]
Some(x) == [some |-> TRUE, v |-> x]

\* enum Stdio { Inherit, Null, File { path, append }, Pipe }
Inherit == [kind |-> "Inherit", path |-> <<>>, append |-> FALSE]
Null == [kind |-> "Null", path |-> <<>>, append |-> FALSE]
Pipe == [kind |-> "Pipe", path |-> <<>>, append |-> FALSE]
File(p, a) == [kind |-> "File", path |-> p, append |-> a]

\* CmdFlags::default()
DefaultFlags == [background |-> FALSE, timeout_ms |-> [some |-> FALSE, v |-> 0], retries |-> 0]

\* CommandSpec::default(); env is a map from keys to values
DefaultCmd ==
    [program |-> <<>>, args |-> <<>>, env |-> <<>>, cwd |-> None,
     stdin |-> Inherit, stdout |-> Inherit, stderr |-> Inherit,
     flags |-> DefaultFlags]

\* Ord for String: lexicographic on the chars (a < b)
RECURSIVE StrLess(_, _)
StrLess(a, b) ==
    IF b = <<>> THEN FALSE
    ELSE IF a = <<>> THEN TRUE
    ELSE IF Head(a) # Head(b) THEN Head(a) < Head(b)
    ELSE StrLess(Tail(a), Tail(b))

\* iteration order of a BTreeMap: ascending keys
RECURSIVE BTreeKeys(_)
BTreeKeys(keys) ==
    IF keys = {} THEN <<>>
    ELSE LET k == CHOOSE x \in keys : \A y \in keys \ {x} : StrLess(x, y)
         IN <<k>> \o BTreeKeys(keys \ {k})

(***************************************************************************)
(* Renderers (render/mod.rs).                                              *)
(***************************************************************************)
\* format!("{}", n) for an unsigned integer
RECURSIVE ToDec(_)
ToDec(n) == IF n < 10 THEN <<48 + n>> ELSE ToDec(n \div 10) \o <<48 + (n % 10)>>

\* render_redir(fd, io): a sequence holding the token, or the empty sequence for None
render_redir(fd, io) ==
    IF io.kind = "Null" THEN
        IF fd = 0 THEN << <<60, 32, 47, 100, 101, 118, 47, 110, 117, 108, 108>> >>          \* < /dev/null
        ELSE IF fd = 1 THEN << <<62, 32, 47, 100, 101, 118, 47, 110, 117, 108, 108>> >>     \* > /dev/null
        ELSE << <<50, 62, 32, 47, 100, 101, 118, 47, 110, 117, 108, 108>> >>                \* 2> /dev/null
    ELSE IF io.kind = "File" THEN
        IF fd = 0 THEN << <<60, 32>> \o quote_sh(io.path) >>
        ELSE IF fd = 1 THEN << (IF io.append THEN <<62, 62>> ELSE <<62>>) \o <<32>> \o quote_sh(io.path) >>
        ELSE << <<50>> \o (IF io.append THEN <<62, 62>> ELSE <<62>>) \o <<32>> \o quote_sh(io.path) >>
    ELSE <<>>                                                   \* Inherit, Pipe

render_redir_win(fd, io) ==
    IF io.kind = "Null" THEN
        IF fd = 0 THEN << <<60, 32, 78, 85, 76>> >>             \* < NUL
        ELSE IF fd = 1 THEN << <<62, 32, 78, 85, 76>> >>        \* > NUL
        ELSE << <<50, 62, 32, 78, 85, 76>> >>                   \* 2> NUL
    ELSE IF io.kind = "File" THEN
        IF fd = 0 THEN << <<60, 32>> \o quote_win(io.path) >>
        ELSE IF fd = 1 THEN << (IF io.append THEN <<62, 62>> ELSE <<62>>) \o <<32>> \o quote_win(io.path) >>
        ELSE << <<50>> \o (IF io.append THEN <<62, 62>> ELSE <<62>>) \o <<32>> \o quote_win(io.path) >>
    ELSE <<>>

\* the env assignments in the map's iteration order: KEY=<quoted value>
posix_env_parts(env) ==
    LET keys == BTreeKeys(DOMAIN env)
    IN [i \in 1..Len(keys) |-> keys[i] \o <<61>> \o quote_sh(env[keys[i]])]

\* args before the program
posix_parts_args_first(c) ==
    posix_env_parts(c.env)
        \o [i \in 1..Len(c.args) |-> quote_sh(c.args[i])]
        \o <<quote_prog(c.program)>>
        \o render_redir(0, c.stdin) \o render_redir(1, c.stdout) \o render_redir(2, c.stderr)

posix_parts(c) ==
    posix_env_parts(c.env)
        \o <<quote_prog(c.program)>>
        \o [i \in 1..Len(c.args) |-> quote_sh(c.args[i])]
        \o render_redir(0, c.stdin) \o render_redir(1, c.stdout) \o render_redir(2, c.stderr)

\* renders an empty program instead of failing
posix_render_cmd_noerr(c) ==
    LET cmd_str == join(posix_parts(c), <<32>>)
    IN Ok(IF c.cwd.some
          THEN <<99, 100, 32>> \o quote_sh(c.cwd.v) \o <<32, 38, 38, 32>> \o cmd_str
          ELSE cmd_str)

\* <PosixRenderer as Renderer>::render_cmd
posix_render_cmd(c) ==
    IF c.program = <<>> THEN Err("RenderError")
    ELSE LET cmd_str == join(posix_parts(c), <<32>>)
         IN Ok(IF c.cwd.some
               THEN <<99, 100, 32>> \o quote_sh(c.cwd.v) \o <<32, 38, 38, 32>> \o cmd_str   \* cd {} && {}
               ELSE cmd_str)

\* the metas of a plan rendering: timeout={}ms, retries={}
plan_metas(flags) ==
    (IF flags.timeout_ms.some
     THEN << <<116, 105, 109, 101, 111, 117, 116, 61>> \o ToDec(flags.timeout_ms.v) \o <<109, 115>> >>
     ELSE <<>>)
    \o (IF flags.retries > 0
        THEN << <<114, 101, 116, 114, 105, 101, 115, 61>> \o ToDec(flags.retries) >>
        ELSE <<>>)

\* appends the annotation to a rendered command: "  # {}" of the metas joined by ", "
annotate(text, flags) ==
    LET metas == plan_metas(flags)
    IN IF metas # <<>> THEN text \o <<32, 32, 35, 32>> \o join(metas, <<44, 32>>) ELSE text

\* annotates only when both hints are set
posix_render_cmd_plan_both(c) ==
    LET r == posix_render_cmd(c)
    IN IF ~r.ok THEN r
       ELSE IF c.flags.timeout_ms.some /\ c.flags.retries > 0
            THEN Ok(annotate(r.text, c.flags)) ELSE r

\* <PosixRenderer as Renderer>::render_cmd_plan
posix_render_cmd_plan(c) ==
    LET r == posix_render_cmd(c)
    IN IF ~r.ok THEN r ELSE Ok(annotate(r.text, c.flags))

\* `for c in &pipe.0 { parts.push(f(c)?); }`: the first error, or the parts
try_parts(rs) ==
    IF \E i \in 1..Len(rs) : ~rs[i].ok
    THEN rs[CHOOSE i \in 1..Len(rs) : ~rs[i].ok /\ \A j \in 1..(i - 1) : rs[j].ok]
    ELSE Ok([i \in 1..Len(rs) |-> rs[i].text])

\* Renderer::render_pipe (default method), for PosixRenderer
posix_render_pipe(p) ==
    LET parts == try_parts([i \in 1..Len(p) |-> posix_render_cmd(p[i])])
    IN IF ~parts.ok THEN parts ELSE Ok(join(parts.text, <<32, 124, 32>>))     \* " | "

\* takes the background flag of any command
posix_render_pipe_plan_anybg(p) ==
    LET parts == try_parts([i \in 1..Len(p) |-> posix_render_cmd_plan(p[i])])
    IN IF ~parts.ok THEN parts
       ELSE LET str == join(parts.text, <<32, 124, 32>>)
            IN Ok(IF \E i \in 1..Len(p) : p[i].flags.background
                  THEN str \o <<32, 38>> ELSE str)

\* <PosixRenderer as Renderer>::render_pipe_plan
posix_render_pipe_plan(p) ==
    LET parts == try_parts([i \in 1..Len(p) |-> posix_render_cmd_plan(p[i])])
    IN IF ~parts.ok THEN parts
       ELSE LET str == join(parts.text, <<32, 124, 32>>)
            IN Ok(IF p # <<>> /\ p[Len(p)].flags.background
                  THEN str \o <<32, 38>> ELSE str)                            \* " &"

\* set "{}={}" &&  with v.replace('"', "\"")
win_env_parts(env) ==
    LET keys == BTreeKeys(DOMAIN env)
    IN [i \in 1..Len(keys) |->
          <<115, 101, 116, 32, 34>> \o keys[i] \o <<61>>
              \o replace(env[keys[i]], 34, <<34>>) \o <<34, 32, 38, 38>>]

\* quotes every argument, simple or not
win_parts_allquoted(c) ==
    (IF c.cwd.some
     THEN << <<99, 100, 32, 47, 100, 32>> \o quote_win(c.cwd.v) \o <<32, 38, 38>> >>
     ELSE <<>>)
    \o win_env_parts(c.env)
    \o <<quote_prog_win(c.program)>>
    \o [i \in 1..Len(c.args) |-> <<34>> \o replace(c.args[i], 34, <<34, 34>>) \o <<34>>]
    \o render_redir_win(0, c.stdin) \o render_redir_win(1, c.stdout) \o render_redir_win(2, c.stderr)

win_parts(c) ==
    (IF c.cwd.some
     THEN << <<99, 100, 32, 47, 100, 32>> \o quote_win(c.cwd.v) \o <<32, 38, 38>> >>    \* cd /d {} &&
     ELSE <<>>)
    \o win_env_parts(c.env)
    \o <<quote_prog_win(c.program)>>
    \o [i \in 1..Len(c.args) |-> quote_win(c.args[i])]
    \o render_redir_win(0, c.stdin) \o render_redir_win(1, c.stdout) \o render_redir_win(2, c.stderr)

\* <WinRenderer as Renderer>::render_cmd
win_render_cmd(c) ==
    IF c.program = <<>> THEN Err("RenderError")
    ELSE Ok(join(win_parts(c), <<32>>))

\* Renderer::render_pipe (default method), for WinRenderer
win_render_pipe(p) ==
    LET parts == try_parts([i \in 1..Len(p) |-> win_render_cmd(p[i])])
    IN IF ~parts.ok THEN parts ELSE Ok(join(parts.text, <<32, 124, 32>>))

\* WinRenderer::render_pipe_plan (inherent method)
win_render_pipe_plan(p) ==
    LET parts == try_parts([i \in 1..Len(p) |->
                     LET r == win_render_cmd(p[i])
                     IN IF ~r.ok THEN r ELSE Ok(annotate(r.text, p[i].flags))])
    IN IF ~parts.ok THEN parts
       ELSE LET str == join(parts.text, <<32, 124, 32>>)
            IN Ok(IF p # <<>> /\ p[Len(p)].flags.background
                  THEN str \o <<32, 38>> ELSE str)

\* Renderer::render_cmd_plan (default method), for WinRenderer
win_trait_render_cmd_plan(c) == win_render_cmd(c)

\* Renderer::render_pipe_plan (default method), for WinRenderer
win_trait_render_pipe_plan(p) ==
    LET parts == try_parts([i \in 1..Len(p) |-> win_trait_render_cmd_plan(p[i])])
    IN IF ~parts.ok THEN parts ELSE Ok(join(parts.text, <<32, 124, 32>>))

\* Planner::plan with R = WinRenderer: `self.renderer.render_pipe_plan(pipe)` is
\* resolved through the bound R: Renderer, that is to the method of the trait
planner_plan_win(p) == win_trait_render_pipe_plan(p)

(***************************************************************************)
(* Specification of the quoting functions applied to one string.           *)
(***************************************************************************)
\* a ' " space backslash
QuoteAlphabet == {97, 39, 34, 32, 92}

InitQuote ==
    /\ s \in Strs(QuoteAlphabet, MaxLen)
    /\ cmd = DefaultCmd
    /\ pipe = <<>>
    /\ input = <<>>
    /\ tpl = NoResult
    /\ resolvers = NoResolvers
    /\ op = "init"
    /\ out = NoResult
    /\ calls = <<>>
    /\ scan = NoScan

QuoteSh ==
    /\ op' = "quote_sh"
    /\ out' = Ok(quote_sh(s))
    /\ UNCHANGED <<s, cmd, pipe, input, tpl, resolvers, calls, scan>>

QuoteProg ==
    /\ op' = "quote_prog"
    /\ out' = Ok(quote_prog(s))
    /\ UNCHANGED <<s, cmd, pipe, input, tpl, resolvers, calls, scan>>

QuoteWin ==
    /\ op' = "quote_win"
    /\ out' = Ok(quote_win(s))
    /\ UNCHANGED <<s, cmd, pipe, input, tpl, resolvers, calls, scan>>

QuoteProgWin ==
    /\ op' = "quote_prog_win"
    /\ out' = Ok(quote_prog_win(s))
    /\ UNCHANGED <<s, cmd, pipe, input, tpl, resolvers, calls, scan>>

NextQuote == QuoteSh \/ QuoteProg \/ QuoteWin \/ QuoteProgWin

SpecQuote == InitQuote /\ [][NextQuote]_vars

(***************************************************************************)
(* Specification of the renderers applied to one CommandSpec or to one     *)
(* PipelineSpec.  The renderers take &self and their argument by shared    *)
(* reference and keep no state, so a behaviour applies one operation to    *)
(* the value the caller built.                                             *)
(***************************************************************************)
\* a ' " space
CmdAlphabet == {97, 39, 34, 32}
\* a "
PathAlphabet == {97, 34}

Words == Strs(CmdAlphabet, MaxWord)
ArgWords == Strs(CmdAlphabet, MaxArgLen)
ArgLists == UNION { [1..k -> ArgWords] : k \in 0..MaxArgs }
\* "B", "AB"
EnvKeys == { <<66>>, <<65, 66>> }
EnvVals == Strs(CmdAlphabet, MaxEnvLen)
Envs == UNION { [K -> EnvVals] : K \in SUBSET EnvKeys }
Paths == Strs(PathAlphabet, MaxPathLen)
Stdios == {Inherit, Null, Pipe} \cup { File(p, a) : p \in Paths, a \in BOOLEAN }
Timeouts == { [some |-> FALSE, v |-> 0], [some |-> TRUE, v |-> 0], [some |-> TRUE, v |-> 500] }
FlagSets == [background : BOOLEAN, timeout_ms : Timeouts, retries : {0, 2, 10}]

ProgArgCmds ==
    { [DefaultCmd EXCEPT !.program = p, !.args = a] :
        p \in Words, a \in {<<>>} \cup { <<w>> : w \in ArgWords } }
    \cup { [DefaultCmd EXCEPT !.program = p, !.args = a] :
        p \in { <<97>>, <<97, 39>> }, a \in ArgLists }

EnvCmds ==
    { [DefaultCmd EXCEPT !.program = p, !.env = e, !.cwd = c] :
        p \in { <<>>, <<97>> }, e \in Envs, c \in { None, Some(<<97>>) } }

CwdCmds ==
    { [DefaultCmd EXCEPT !.program = p, !.cwd = Some(d), !.args = a] :
        p \in { <<>>, <<97>> }, d \in Words, a \in { <<>>, << <<32>> >> } }

RedirCmds ==
    { [DefaultCmd EXCEPT !.program = p, !.args = << <<97>> >>,
                         !.stdin = i, !.stdout = o, !.stderr = e] :
        p \in { <<>>, <<97>> }, i \in Stdios, o \in Stdios, e \in Stdios }

FlagCmds ==
    { [DefaultCmd EXCEPT !.program = p, !.args = a, !.stdout = o, !.flags = f] :
        p \in { <<>>, <<97>>, <<97, 32>> }, a \in { <<>>, << <<32>> >> },
        o \in { Inherit, Null }, f \in FlagSets }

MixedCmds ==
    { [program |-> p, args |-> << <<97>>, <<39>> >>,
       env |-> [k \in EnvKeys |-> IF k = <<66>> THEN <<34>> ELSE <<97, 32>>],
       cwd |-> Some(<<97, 32>>), stdin |-> i, stdout |-> o, stderr |-> e, flags |-> f] :
        p \in { <<97>>, <<32>> }, i \in { Null, File(<<97>>, FALSE) },
        o \in { Pipe, File(<<34>>, TRUE) }, e \in { Null, File(<<97>>, TRUE) },
        f \in { DefaultFlags,
                [background |-> TRUE, timeout_ms |-> [some |-> TRUE, v |-> 500], retries |-> 2] } }

CmdSpecs == ProgArgCmds \cup EnvCmds \cup CwdCmds \cup RedirCmds \cup FlagCmds \cup MixedCmds

PipeFlags ==
    [background : BOOLEAN,
     timeout_ms : { [some |-> FALSE, v |-> 0], [some |-> TRUE, v |-> 500] },
     retries : {0, 2}]

PipeCmds ==
    { [DefaultCmd EXCEPT !.program = p, !.flags = f] :
        p \in { <<>>, <<97>>, <<97, 32>> }, f \in PipeFlags }

Pipelines == UNION { [1..k -> PipeCmds] : k \in 0..MaxPipe }

InitRender ==
    /\ s = <<>>
    /\ input = <<>>
    /\ tpl = NoResult
    /\ resolvers = NoResolvers
    /\ op = "init"
    /\ out = NoResult
    /\ calls = <<>>
    /\ scan = NoScan
    /\ \/ cmd \in CmdSpecs /\ pipe = <<>>
       \/ cmd = DefaultCmd /\ pipe \in Pipelines

PosixRenderCmd ==
    /\ op = "init"
    /\ op' = "posix_render_cmd"
    /\ out' = posix_render_cmd(cmd)
    /\ UNCHANGED <<s, cmd, pipe, input, tpl, resolvers, calls, scan>>

PosixRenderCmdPlan ==
    /\ op = "init"
    /\ op' = "posix_render_cmd_plan"
    /\ out' = posix_render_cmd_plan(cmd)
    /\ UNCHANGED <<s, cmd, pipe, input, tpl, resolvers, calls, scan>>

WinRenderCmd ==
    /\ op = "init"
    /\ op' = "win_render_cmd"
    /\ out' = win_render_cmd(cmd)
    /\ UNCHANGED <<s, cmd, pipe, input, tpl, resolvers, calls, scan>>

PosixRenderPipe ==
    /\ op = "init"
    /\ op' = "posix_render_pipe"
    /\ out' = posix_render_pipe(pipe)
    /\ UNCHANGED <<s, cmd, pipe, input, tpl, resolvers, calls, scan>>

PosixRenderPipePlan ==
    /\ op = "init"
    /\ op' = "posix_render_pipe_plan"
    /\ out' = posix_render_pipe_plan(pipe)
    /\ UNCHANGED <<s, cmd, pipe, input, tpl, resolvers, calls, scan>>

WinRenderPipe ==
    /\ op = "init"
    /\ op' = "win_render_pipe"
    /\ out' = win_render_pipe(pipe)
    /\ UNCHANGED <<s, cmd, pipe, input, tpl, resolvers, calls, scan>>

WinRenderPipePlan ==
    /\ op = "init"
    /\ op' = "win_render_pipe_plan"
    /\ out' = win_render_pipe_plan(pipe)
    /\ UNCHANGED <<s, cmd, pipe, input, tpl, resolvers, calls, scan>>

PlannerPlanWin ==
    /\ op = "init"
    /\ op' = "planner_plan_win"
    /\ out' = planner_plan_win(pipe)
    /\ UNCHANGED <<s, cmd, pipe, input, tpl, resolvers, calls, scan>>

NextRender ==
    \/ PosixRenderCmd
    \/ PosixRenderCmdPlan
    \/ WinRenderCmd
    \/ PosixRenderPipe
    \/ PosixRenderPipePlan
    \/ WinRenderPipe
    \/ WinRenderPipePlan
    \/ PlannerPlanWin

SpecRender == InitRender /\ [][NextRender]_vars

(***************************************************************************)
(* C1: quote_sh(s) is a single quote, then s with every embedded single    *)
(* quote replaced by the five characters '"'"', then a single quote; for   *)
(* the empty string it is exactly ''.                                      *)
(***************************************************************************)
ShPiece(c) == IF c = 39 THEN <<39, 34, 39, 34, 39>> ELSE <<c>>

ShQuoted(str) == <<39>> \o Concat([i \in 1..Len(str) |-> ShPiece(str[i])]) \o <<39>>

C1_QuoteShShape ==
    op = "quote_sh" =>
        /\ out = Ok(ShQuoted(s))
        /\ (s = <<>> => out.text = <<39, 39>>)

C1_Witness ==
    /\ op = "quote_sh"
    /\ Len(s) = 3
    /\ s[2] = 39
    /\ out.text = <<39, s[1], 39, 34, 39, 34, 39, s[3], 39>>

(***************************************************************************)
(* Vocabulary of the claims about the renderers.                           *)
(***************************************************************************)
\* parts joined with single spaces
Spaced(parts) == Concat([i \in 1..Len(parts) |-> IF i = 1 THEN parts[i] ELSE <<32>> \o parts[i]])

\* the keys of a map as the sequence in ascending order
Ascending(keys) ==
    CHOOSE ks \in [1..Cardinality(keys) -> keys] :
        /\ Range(ks) = keys
        /\ \A i, j \in 1..Cardinality(keys) : i < j => StrLess(ks[i], ks[j])

\* the least index j >= i with t[j] in cs, or Len(t) + 1
NextOf(t, i, cs) ==
    LET hits == { j \in i..Len(t) : t[j] \in cs }
    IN IF hits = {} THEN Len(t) + 1 ELSE CHOOSE j \in hits : \A k \in hits : j <= k

\* POSIX word splitting: unquoted spaces separate words, '...' and "..." runs
\* are taken literally and concatenated into the current word
RECURSIVE ShSplitFrom(_, _, _, _, _)
ShSplitFrom(t, i, cur, inword, words) ==
    CASE i > Len(t) -> IF inword THEN Append(words, cur) ELSE words
      [] i <= Len(t) /\ t[i] = 32 ->
            ShSplitFrom(t, i + 1, <<>>, FALSE, IF inword THEN Append(words, cur) ELSE words)
      [] i <= Len(t) /\ t[i] \in {39, 34} ->
            LET j == NextOf(t, i + 1, {t[i]})
            IN IF j > Len(t) THEN << <<0>> >>                   \* unterminated quote
               ELSE ShSplitFrom(t, j + 1, cur \o SubSeq(t, i + 1, j - 1), TRUE, words)
      [] OTHER ->
            LET j == NextOf(t, i, {32, 39, 34})
            IN ShSplitFrom(t, j, cur \o SubSeq(t, i, j - 1), TRUE, words)

ShSplit(t) == ShSplitFrom(t, 1, <<>>, FALSE, <<>>)

NoRedir(io) == io.kind \in {"Inherit", "Pipe"}

\* the redirection token of a route: op is "<", ">" or "2>", nul the discard target
RedirToken(opr, io, nul, quoted) ==
    IF io.kind = "Null" THEN << opr \o <<32>> \o nul >>
    ELSE IF io.kind = "File"
    THEN << opr \o (IF io.append /\ opr # <<60>> THEN <<62>> ELSE <<>>) \o <<32>> \o quoted >>
    ELSE <<>>

DevNull == <<47, 100, 101, 118, 47, 110, 117, 108, 108>>
Nul == <<78, 85, 76>>

(***************************************************************************)
(* C2 as stated: for every CommandSpec with a non-empty program,           *)
(* PosixRenderer.render_cmd returns Ok and splitting its text into shell   *)
(* words gives back exactly the program followed by the arguments.         *)
(***************************************************************************)
C2_RoundTripAnyCmd ==
    (op = "posix_render_cmd" /\ cmd.program # <<>>) =>
        /\ out.ok
        /\ ShSplit(out.text) = <<cmd.program>> \o cmd.args

(***************************************************************************)
(* C2 amended: for every CommandSpec with a non-empty program, no working  *)
(* directory, no environment entry and no discard or file route,           *)
(* render_cmd returns Ok and splitting its text into shell words gives     *)
(* back exactly the program followed by the arguments, in order and        *)
(* character for character.  With any other CommandSpec render_cmd still   *)
(* returns Ok.                                                             *)
(***************************************************************************)
C2_RoundTrip ==
    (op = "posix_render_cmd" /\ cmd.program # <<>>) =>
        /\ out.ok
        /\ (/\ ~cmd.cwd.some
            /\ DOMAIN cmd.env = {}
            /\ NoRedir(cmd.stdin) /\ NoRedir(cmd.stdout) /\ NoRedir(cmd.stderr))
           => ShSplit(out.text) = <<cmd.program>> \o cmd.args

C2_Witness ==
    /\ op = "posix_render_cmd"
    /\ out.ok
    /\ cmd.program = <<97, 39>>
    /\ cmd.args = << <<39>>, <<>> >>
    /\ ShSplit(out.text) = << <<97, 39>>, <<39>>, <<>> >>

(***************************************************************************)
(* C3: the exact format of PosixRenderer.render_cmd: `cd <quoted cwd> && ` *)
(* when a working directory is present, then, joined with single spaces,   *)
(* KEY=<quoted value> per environment entry in ascending key order, the    *)
(* program (bare exactly when all its chars are simple), the arguments in  *)
(* order and always quoted, and the stdin, stdout, stderr redirection      *)
(* tokens, present only for discard and file routes.                       *)
(***************************************************************************)
PosixExpected(c) ==
    LET keys == Ascending(DOMAIN c.env)
        envs == [i \in 1..Len(keys) |-> keys[i] \o <<61>> \o ShQuoted(c.env[keys[i]])]
        prog == IF \A i \in 1..Len(c.program) : simple_char(c.program[i])
                THEN c.program ELSE ShQuoted(c.program)
        args == [i \in 1..Len(c.args) |-> ShQuoted(c.args[i])]
        redirs == RedirToken(<<60>>, c.stdin, DevNull, ShQuoted(c.stdin.path))
                  \o RedirToken(<<62>>, c.stdout, DevNull, ShQuoted(c.stdout.path))
                  \o RedirToken(<<50, 62>>, c.stderr, DevNull, ShQuoted(c.stderr.path))
    IN (IF c.cwd.some THEN <<99, 100, 32>> \o ShQuoted(c.cwd.v) \o <<32, 38, 38, 32>> ELSE <<>>)
       \o Spaced(envs \o <<prog>> \o args \o redirs)

C3_PosixFormat ==
    (op = "posix_render_cmd" /\ cmd.program # <<>>) => out = Ok(PosixExpected(cmd))

C3_Witness ==
    /\ op = "posix_render_cmd"
    /\ out.ok
    /\ cmd.cwd.some
    /\ Cardinality(DOMAIN cmd.env) = 2
    /\ Len(cmd.args) = 2
    /\ cmd.program = <<32>>
    /\ cmd.stdin.kind = "File" /\ cmd.stdout.kind = "File" /\ cmd.stdout.append
    /\ cmd.stderr.kind = "Null"

(***************************************************************************)
(* C4: an empty program is a hard error with no partial output: render_cmd *)
(* of both renderers returns a render error whenever the program is empty, *)
(* and render_pipe and render_pipe_plan return that error whenever any     *)
(* command of the pipeline has an empty program.                           *)
(***************************************************************************)
C4_EmptyProgramError ==
    /\ (op \in {"posix_render_cmd", "win_render_cmd"} /\ cmd.program = <<>>)
          => out = Err("RenderError")
    /\ (/\ op \in {"posix_render_pipe", "posix_render_pipe_plan",
                   "win_render_pipe", "win_render_pipe_plan"}
        /\ \E i \in 1..Len(pipe) : pipe[i].program = <<>>)
          => out = Err("RenderError")

C4_Witness ==
    /\ op = "posix_render_pipe_plan"
    /\ Len(pipe) = 2
    /\ pipe[1].program # <<>>
    /\ pipe[2].program = <<>>
    /\ out = Err("RenderError")

(***************************************************************************)
(* Vocabulary of the claims about the Windows renderer.                    *)
(***************************************************************************)
WinPiece(c) == IF c = 34 THEN <<34, 34>> ELSE <<c>>

\* a string with every embedded double quote doubled
Doubled(str) == Concat([i \in 1..Len(str) |-> WinPiece(str[i])])

\* bare when non-empty and made only of Windows simple-word chars, else "..."
WinQuoted(str) ==
    IF str # <<>> /\ \A i \in 1..Len(str) : (simple_char(str[i]) \/ str[i] = 92)
    THEN str
    ELSE <<34>> \o Doubled(str) \o <<34>>

\* t occurs in u as a contiguous run
IsInfix(t, u) == \E i \in 0..(Len(u) - Len(t)) : SubSeq(u, i + 1, i + Len(t)) = t

\* set "K=V" &&
SetEntry(k, v) == <<115, 101, 116, 32, 34>> \o k \o <<61>> \o v \o <<34, 32, 38, 38>>

(***************************************************************************)
(* C5: WinRenderer.render_cmd renders each environment entry (K, V) as     *)
(* `set "K=V'" &&` where V' is V with every embedded double quote doubled  *)
(* and no other change.                                                    *)
(***************************************************************************)
C5_WinEnvDoubled ==
    (op = "win_render_cmd" /\ cmd.program # <<>>) =>
        /\ out.ok
        /\ \A k \in DOMAIN cmd.env : IsInfix(SetEntry(k, Doubled(cmd.env[k])), out.text)

(***************************************************************************)
(* C6: the exact format of WinRenderer.render_cmd: joined with single      *)
(* spaces, `cd /d <dir> &&` when a working directory is present, the `set` *)
(* entries in ascending key order, the program, the arguments in order and *)
(* the stdin, stdout, stderr redirection tokens with NUL as the discard    *)
(* target; the directory, the program, each argument and each redirection  *)
(* path is bare when non-empty and simple, and is otherwise wrapped in     *)
(* double quotes with every embedded double quote doubled.  (The value     *)
(* inside a `set` entry is the subject of C5: either form is accepted      *)
(* here.)                                                                  *)
(***************************************************************************)
WinExpected(c, form) ==
    LET keys == Ascending(DOMAIN c.env)
        sets == [i \in 1..Len(keys) |->
                    SetEntry(keys[i], IF form[keys[i]] = "doubled"
                                      THEN Doubled(c.env[keys[i]]) ELSE c.env[keys[i]])]
        cd == IF c.cwd.some
              THEN << <<99, 100, 32, 47, 100, 32>> \o WinQuoted(c.cwd.v) \o <<32, 38, 38>> >>
              ELSE <<>>
        args == [i \in 1..Len(c.args) |-> WinQuoted(c.args[i])]
        redirs == RedirToken(<<60>>, c.stdin, Nul, WinQuoted(c.stdin.path))
                  \o RedirToken(<<62>>, c.stdout, Nul, WinQuoted(c.stdout.path))
                  \o RedirToken(<<50, 62>>, c.stderr, Nul, WinQuoted(c.stderr.path))
    IN Spaced(cd \o sets \o <<WinQuoted(c.program)>> \o args \o redirs)

C6_WinFormat ==
    (op = "win_render_cmd" /\ cmd.program # <<>>) =>
        /\ out.ok
        /\ \E form \in [DOMAIN cmd.env -> {"doubled", "raw"}] :
              out.text = WinExpected(cmd, form)

C6_Witness ==
    /\ op = "win_render_cmd"
    /\ out.ok
    /\ cmd.cwd.some
    /\ cmd.program = <<97>>
    /\ cmd.args = << <<97>>, <<39>> >>
    /\ Cardinality(DOMAIN cmd.env) = 2
    /\ cmd.stdin.kind = "File" /\ cmd.stdout.kind = "File" /\ cmd.stdout.path = <<34>>
    /\ cmd.stderr.kind = "Null"

(***************************************************************************)
(* C7: PosixRenderer.render_cmd_plan returns render_cmd's text followed by *)
(* `  # ` and the hints that are set joined by `, `, `timeout=<ms>ms`      *)
(* (timeout present) before `retries=<n>` (retry count non-zero), and      *)
(* render_cmd's text unchanged when neither hint is set.                   *)
(***************************************************************************)
\* decimal numerals of the hint values of the model's inputs
Numeral == (0 :> <<48>>) @@ (2 :> <<50>>) @@ (10 :> <<49, 48>>) @@ (500 :> <<53, 48, 48>>)

TimeoutHint(flags) ==
    <<116, 105, 109, 101, 111, 117, 116, 61>> \o Numeral[flags.timeout_ms.v] \o <<109, 115>>

RetriesHint(flags) == <<114, 101, 116, 114, 105, 101, 115, 61>> \o Numeral[flags.retries]

PlanSuffix(flags) ==
    CASE flags.timeout_ms.some /\ flags.retries # 0 ->
            <<32, 32, 35, 32>> \o TimeoutHint(flags) \o <<44, 32>> \o RetriesHint(flags)
      [] flags.timeout_ms.some /\ flags.retries = 0 -> <<32, 32, 35, 32>> \o TimeoutHint(flags)
      [] ~flags.timeout_ms.some /\ flags.retries # 0 -> <<32, 32, 35, 32>> \o RetriesHint(flags)
      [] OTHER -> <<>>

C7_PlanAnnotation ==
    (op = "posix_render_cmd_plan" /\ cmd.program # <<>>) =>
        out = Ok(posix_render_cmd(cmd).text \o PlanSuffix(cmd.flags))

C7_Witness ==
    /\ op = "posix_render_cmd_plan"
    /\ out.ok
    /\ ~cmd.flags.timeout_ms.some
    /\ cmd.flags.retries = 10
    /\ cmd.stdout.kind = "Null"
    /\ cmd.args # <<>>

(***************************************************************************)
(* C8: for a PipelineSpec whose commands all have non-empty programs,      *)
(* PosixRenderer.render_pipe_plan returns the commands' plan renderings in *)
(* order joined by ` | `, followed by ` &` exactly when the last command's *)
(* background flag is set; the background flags of earlier commands have   *)
(* no effect, and an empty pipeline renders as the empty string.           *)
(***************************************************************************)
Piped(parts) ==
    Concat([i \in 1..Len(parts) |-> IF i = 1 THEN parts[i] ELSE <<32, 124, 32>> \o parts[i]])

C8_PipePlan ==
    (op = "posix_render_pipe_plan" /\ \A i \in 1..Len(pipe) : pipe[i].program # <<>>) =>
        /\ out = Ok(Piped([i \in 1..Len(pipe) |-> posix_render_cmd_plan(pipe[i]).text])
                    \o (IF pipe # <<>> /\ pipe[Len(pipe)].flags.background
                        THEN <<32, 38>> ELSE <<>>))
        /\ \A i \in 1..(Len(pipe) - 1) :
              posix_render_pipe_plan(
                  [pipe EXCEPT ![i].flags.background = ~pipe[i].flags.background]) = out
        /\ (pipe = <<>> => out.text = <<>>)

C8_Witness ==
    /\ op = "posix_render_pipe_plan"
    /\ out.ok
    /\ Len(pipe) = 2
    /\ pipe[1].flags.background
    /\ ~pipe[2].flags.background
    /\ pipe[1].flags.timeout_ms.some
    /\ pipe[2].flags.retries = 2
    /\ out.text[Len(out.text)] # 38

(***************************************************************************)
(* Strings as bytes (str::as_bytes, char::len_utf8, &input[a..b]).         *)
(***************************************************************************)
\* the UTF-8 encoding of one char (below U+10000)
utf8(c) ==
    IF c < 128 THEN <<c>>
    ELSE IF c < 2048 THEN <<192 + (c \div 64), 128 + (c % 64)>>
    ELSE <<224 + (c \div 4096), 128 + ((c \div 64) % 64), 128 + (c % 64)>>

as_bytes(str) == Concat([i \in 1..Len(str) |-> utf8(str[i])])

len_utf8(c) == IF c < 128 THEN 1 ELSE IF c < 2048 THEN 2 ELSE IF c < 65536 THEN 3 ELSE 4

\* the chars held by the bytes of bs from index k on
RECURSIVE from_utf8_at(_, _)
from_utf8_at(bs, k) ==
    IF k > Len(bs) THEN <<>>
    ELSE IF bs[k] < 128 THEN <<bs[k]>> \o from_utf8_at(bs, k + 1)
    ELSE IF bs[k] < 224
    THEN <<(bs[k] - 192) * 64 + (bs[k + 1] - 128)>> \o from_utf8_at(bs, k + 2)
    ELSE <<(bs[k] - 224) * 4096 + (bs[k + 1] - 128) * 64 + (bs[k + 2] - 128)>>
             \o from_utf8_at(bs, k + 3)

\* the str held by a run of bytes that starts and ends on char boundaries
from_utf8(bs) == from_utf8_at(bs, 1)

\* &input[a..b] with byte offsets a, b (0-based, b exclusive)
slice(bytes, a, b) == from_utf8(SubSeq(bytes, a + 1, b))

\* bytes[i] as char, i 0-based
at(bytes, i) == bytes[i + 1]

\* the least element of S, or d when S is empty
MinOr(S, d) == IF S = {} THEN d ELSE CHOOSE x \in S : \A y \in S : x <= y

\* char::is_whitespace for the chars a byte can give
is_whitespace(c) == c \in {9, 10, 11, 12, 13, 32, 133, 160}

\* c.is_ascii_alphanumeric() || c == '_' || c == '-'
name_char(c) == is_ascii_alphanumeric(c) \/ c = 95 \/ c = 45

(***************************************************************************)
(* Template AST and evaluation (tmpl/mod.rs).                              *)
(***************************************************************************)
\* enum Segment { Lit(String), Var(String), Func { name, args } }
Lit(str) == [t |-> "Lit", s |-> str]
Var(k) == [t |-> "Var", s |-> k]
Func(name, args) == [t |-> "Func", s |-> name, args |-> args]

\* Result<Template, SyntaxError>
OkT(segs) == [ok |-> TRUE, segs |-> segs]

\* `if !lit.is_empty() { segs.push(Segment::Lit(lit)) }`
flush(segs, lit) == IF lit # <<>> THEN Append(segs, Lit(lit)) ELSE segs

\* easy::Store: Store::new() is the empty map; get and insert of its HashMap
EmptyStore == << >>

store_get(m, k) == IF k \in DOMAIN m THEN Some(m[k]) ELSE None

store_insert(m, k, v) == [x \in (DOMAIN m) \cup {k} |-> IF x = k THEN v ELSE m[x]]

\* VariableResolver::get of the resolvers of the crate and of its tests, with
\* the map m of the Store: Option<String>
var_get(v, m, k) ==
    IF v = "Vars" THEN Some(<<60>> \o k \o <<62>>)              \* format!("<{}>", key)
    ELSE IF v = "Store" THEN store_get(m, k)
    ELSE None                                                   \* NoVar

\* args.get(n).cloned().unwrap_or_default()
arg_or_default(args, n) == IF n < Len(args) THEN args[n + 1] ELSE <<>>

\* FuncResolver::call of the resolvers of the crate and of its tests, and of a
\* capability that reports a failure: Result<String, SyntaxError>
func_call(f, name, args) ==
    IF f = "EchoFunc"                                           \* format!("<{}:{}:{}>", ..)
    THEN Ok(<<60>> \o name \o <<58>> \o arg_or_default(args, 0)
                \o <<58>> \o arg_or_default(args, 1) \o <<62>>)
    ELSE IF f = "FailFunc" THEN Err("FuncError")
    ELSE Ok(<<>>)                                               \* NoFunc, Store

\* the map of the Store after FuncResolver::call:  "set" if args.len() >= 2
store_after(f, m, name, args) ==
    IF f = "Store" /\ name = <<115, 101, 116>> /\ Len(args) >= 2
    THEN store_insert(m, args[1], args[2])
    ELSE m

\* one resolver call of render, as recorded in `calls`
GetCall(n, k) == [seg |-> n, fn |-> "get", name |-> k, args |-> <<>>]
FuncCall(n, name, args) == [seg |-> n, fn |-> "call", name |-> name, args |-> args]

\* goes on with the next segment when a function call fails
RECURSIVE render_from_lenient(_, _, _, _, _, _, _)
render_from_lenient(segs, n, acc, v, f, m, log) ==
    IF n > Len(segs) THEN [res |-> Ok(acc), calls |-> log]
    ELSE IF segs[n].t = "Lit" THEN render_from_lenient(segs, n + 1, acc \o segs[n].s, v, f, m, log)
    ELSE IF segs[n].t = "Var"
    THEN LET got == var_get(v, m, segs[n].s)
         IN render_from_lenient(segs, n + 1, acc \o (IF got.some THEN got.v ELSE <<>>), v, f, m,
                        Append(log, GetCall(n, segs[n].s)))
    ELSE LET r == func_call(f, segs[n].s, segs[n].args)
             m2 == store_after(f, m, segs[n].s, segs[n].args)
             log2 == Append(log, FuncCall(n, segs[n].s, segs[n].args))
         IN IF ~r.ok THEN render_from_lenient(segs, n + 1, acc, v, f, m2, log2)
            ELSE render_from_lenient(segs, n + 1, acc \o r.text, v, f, m2, log2)

\* looks the variables up in the map as it was before the calls of the render
RECURSIVE render_from_stale(_, _, _, _, _, _, _)
render_from_stale(segs, n, acc, v, f, m, log) ==
    IF n > Len(segs) THEN [res |-> Ok(acc), calls |-> log]
    ELSE IF segs[n].t = "Lit" THEN render_from_stale(segs, n + 1, acc \o segs[n].s, v, f, m, log)
    ELSE IF segs[n].t = "Var"
    THEN LET got == var_get(v, m, segs[n].s)
         IN render_from_stale(segs, n + 1, acc \o (IF got.some THEN got.v ELSE <<>>), v, f, m,
                        Append(log, GetCall(n, segs[n].s)))
    ELSE LET r == func_call(f, segs[n].s, segs[n].args)
             m2 == store_after(f, m, segs[n].s, segs[n].args)
             log2 == Append(log, FuncCall(n, segs[n].s, segs[n].args))
         IN IF ~r.ok THEN [res |-> r, calls |-> log2]               \* the `?`
            ELSE render_from_stale(segs, n + 1, acc \o r.text, v, f, m, log2)

\* Template::render: the loop over the segments from index n, with `out` so
\* far, the map m of the Store and the resolver calls made so far
RECURSIVE render_from(_, _, _, _, _, _, _)
render_from(segs, n, acc, v, f, m, log) ==
    IF n > Len(segs) THEN [res |-> Ok(acc), calls |-> log]
    ELSE IF segs[n].t = "Lit" THEN render_from(segs, n + 1, acc \o segs[n].s, v, f, m, log)
    ELSE IF segs[n].t = "Var"
    THEN LET got == var_get(v, m, segs[n].s)
         IN render_from(segs, n + 1, acc \o (IF got.some THEN got.v ELSE <<>>), v, f, m,
                        Append(log, GetCall(n, segs[n].s)))
    ELSE LET r == func_call(f, segs[n].s, segs[n].args)
             m2 == store_after(f, m, segs[n].s, segs[n].args)
             log2 == Append(log, FuncCall(n, segs[n].s, segs[n].args))
         IN IF ~r.ok THEN [res |-> r, calls |-> log2]               \* the `?`
            ELSE render_from(segs, n + 1, acc \o r.text, v, f, m2, log2)

\* Template::render(&self, vars, funcs): the result and the calls made
render(segs, v, f) == render_from(segs, 1, <<>>, v, f, EmptyStore, <<>>)

(***************************************************************************)
(* Template::parse, the shell-style parser (tmpl/mod.rs).                  *)
(***************************************************************************)
\* the `${VAR}` branch shared by parse and parse_jynx: the index of the closing
\* brace (or the length when there is none) and the name
brace_close(bytes, start) ==
    MinOr({ j \in start..(Len(bytes) - 1) : at(bytes, j) = 125 }, Len(bytes))

valid_var(var) == \A n \in 1..Len(var) : name_char(var[n])

\* the `while i < bytes.len()` loop of Template::parse from index i
RECURSIVE parse_from(_, _, _, _)
parse_from(bytes, i, segs, lit) ==
    IF i >= Len(bytes) THEN OkT(flush(segs, lit))
    ELSE IF at(bytes, i) = 36                                   \* '$'
    THEN IF i + 1 < Len(bytes) /\ at(bytes, i + 1) = 36         \* $$
         THEN parse_from(bytes, i + 2, segs, Append(lit, 36))
         ELSE IF i + 1 < Len(bytes) /\ at(bytes, i + 1) = 123   \* ${
         THEN LET close == brace_close(bytes, i + 2)
                  var == slice(bytes, i + 2, close)
              IN IF close >= Len(bytes) THEN Err("ResolveError")            \* unclosed
                 ELSE IF ~valid_var(var) THEN Err("ResolveError")           \* invalid name
                 ELSE parse_from(bytes, close + 1, Append(flush(segs, lit), Var(var)), <<>>)
         ELSE parse_from(bytes, i + 1, segs, Append(lit, 36))   \* lone '$'
    ELSE parse_from(bytes, i + len_utf8(at(bytes, i)), segs, Append(lit, at(bytes, i)))

\* Template::parse(input)
parse(str) == parse_from(as_bytes(str), 0, <<>>, <<>>)

(***************************************************************************)
(* Template::parse_jynx, the markup-style parser (tmpl/mod.rs).            *)
(***************************************************************************)
\* the balanced-parentheses loop from index j at the given depth: where it
\* stops and the depth it stops with
RECURSIVE scan_parens(_, _, _)
scan_parens(bytes, j, depth) ==
    IF j >= Len(bytes) THEN [j |-> j, depth |-> depth]
    ELSE IF at(bytes, j) = 40 THEN scan_parens(bytes, j + 1, depth + 1)
    ELSE IF at(bytes, j) = 41
    THEN IF depth - 1 = 0 THEN [j |-> j, depth |-> 0]
         ELSE scan_parens(bytes, j + 1, depth - 1)
    ELSE scan_parens(bytes, j + 1, depth)

\* the end of the name that starts at `from`
name_end(bytes, from) ==
    MinOr({ j \in from..(Len(bytes) - 1) : ~name_char(at(bytes, j)) }, Len(bytes))

\* the end of the arg token that starts at `from`: the first '(' or whitespace
arg_end(bytes, from) ==
    MinOr({ j \in from..(Len(bytes) - 1) : at(bytes, j) = 40 \/ is_whitespace(at(bytes, j)) },
          Len(bytes))

\* fails where parse_jynx falls back to a literal `%`
RECURSIVE parse_jynx_from_strict(_, _, _, _)
parse_jynx_from_strict(bytes, i, segs, lit) ==
    IF i >= Len(bytes) THEN OkT(flush(segs, lit))
    ELSE IF at(bytes, i) = 36                                   \* '$'
    THEN IF i + 1 < Len(bytes) /\ at(bytes, i + 1) = 36
         THEN parse_jynx_from_strict(bytes, i + 2, segs, Append(lit, 36))
         ELSE IF i + 1 < Len(bytes) /\ at(bytes, i + 1) = 123
         THEN LET close == brace_close(bytes, i + 2)
                  var == slice(bytes, i + 2, close)
              IN IF close >= Len(bytes) THEN Err("ResolveError")
                 ELSE IF ~valid_var(var) THEN Err("ResolveError")
                 ELSE parse_jynx_from_strict(bytes, close + 1,
                                      Append(flush(segs, lit), Var(var)), <<>>)
         ELSE parse_jynx_from_strict(bytes, i + 1, segs, Append(lit, 36))
    ELSE IF at(bytes, i) = 37                                   \* '%'
    THEN LET j1 == name_end(bytes, i + 1)
             j2 == arg_end(bytes, j1 + 1)
             sc == scan_parens(bytes, j2 + 1, 1)
             literal == Err("ResolveError")
         IN IF j1 = i + 1 THEN literal                                      \* no name
            ELSE IF j1 >= Len(bytes) \/ at(bytes, j1) # 58 THEN literal     \* no ':'
            ELSE IF j2 >= Len(bytes) \/ at(bytes, j2) # 40 THEN literal     \* no '('
            ELSE IF sc.depth # 0 THEN Err("ResolveError")                   \* unclosed (
            ELSE parse_jynx_from_strict(bytes, sc.j + 1,
                     Append(flush(segs, lit),
                            Func(slice(bytes, i + 1, j1),
                                 << slice(bytes, j1 + 1, j2), slice(bytes, j2 + 1, sc.j) >>)),
                     <<>>)
    ELSE parse_jynx_from_strict(bytes, i + len_utf8(at(bytes, i)), segs, Append(lit, at(bytes, i)))

\* the `while i < bytes.len()` loop of Template::parse_jynx from index i
RECURSIVE parse_jynx_from(_, _, _, _)
parse_jynx_from(bytes, i, segs, lit) ==
    IF i >= Len(bytes) THEN OkT(flush(segs, lit))
    ELSE IF at(bytes, i) = 36                                   \* '$'
    THEN IF i + 1 < Len(bytes) /\ at(bytes, i + 1) = 36
         THEN parse_jynx_from(bytes, i + 2, segs, Append(lit, 36))
         ELSE IF i + 1 < Len(bytes) /\ at(bytes, i + 1) = 123
         THEN LET close == brace_close(bytes, i + 2)
                  var == slice(bytes, i + 2, close)
              IN IF close >= Len(bytes) THEN Err("ResolveError")
                 ELSE IF ~valid_var(var) THEN Err("ResolveError")
                 ELSE parse_jynx_from(bytes, close + 1,
                                      Append(flush(segs, lit), Var(var)), <<>>)
         ELSE parse_jynx_from(bytes, i + 1, segs, Append(lit, 36))
    ELSE IF at(bytes, i) = 37                                   \* '%'
    THEN LET j1 == name_end(bytes, i + 1)
             j2 == arg_end(bytes, j1 + 1)
             sc == scan_parens(bytes, j2 + 1, 1)
             literal == parse_jynx_from(bytes, i + 1, segs, Append(lit, 37))
         IN IF j1 = i + 1 THEN literal                                      \* no name
            ELSE IF j1 >= Len(bytes) \/ at(bytes, j1) # 58 THEN literal     \* no ':'
            ELSE IF j2 >= Len(bytes) \/ at(bytes, j2) # 40 THEN literal     \* no '('
            ELSE IF sc.depth # 0 THEN Err("ResolveError")                   \* unclosed (
            ELSE parse_jynx_from(bytes, sc.j + 1,
                     Append(flush(segs, lit),
                            Func(slice(bytes, i + 1, j1),
                                 << slice(bytes, j1 + 1, j2), slice(bytes, j2 + 1, sc.j) >>)),
                     <<>>)
    ELSE parse_jynx_from(bytes, i + len_utf8(at(bytes, i)), segs, Append(lit, at(bytes, i)))

\* Template::parse_jynx(input)
parse_jynx(str) == parse_jynx_from(as_bytes(str), 0, <<>>, <<>>)

(***************************************************************************)
(* Template::parse_simple, the double-brace parser (tmpl/mod.rs).          *)
(***************************************************************************)
\* str::trim
RECURSIVE trim_start(_)
trim_start(str) ==
    IF str # <<>> /\ is_whitespace(Head(str)) THEN trim_start(Tail(str)) ELSE str

RECURSIVE trim_end(_)
trim_end(str) ==
    IF str # <<>> /\ is_whitespace(str[Len(str)])
    THEN trim_end(SubSeq(str, 1, Len(str) - 1)) ELSE str

trim(str) == trim_end(trim_start(str))

\* the index of the first "}}" at or after `start`, or -1 (`found` false)
close_braces(bytes, start) ==
    MinOr({ j \in start..(Len(bytes) - 2) : at(bytes, j) = 125 /\ at(bytes, j + 1) = 125 }, -1)

\* inner.chars().all(|c| c.is_ascii_alphanumeric() || c == '_' || c == '-' || c == '.')
simple_var(inner) ==
    inner # <<>> /\ \A n \in 1..Len(inner) : (name_char(inner[n]) \/ inner[n] = 46)

\* the `func:arg(text)` attempt on the bytes of inner: the segment, or ok FALSE for
\* the fallback
simple_func_bytes(ib) ==
    LET k == name_end(ib, 0)
        p == arg_end(ib, k + 1)
        sc == scan_parens(ib, p + 1, 1)
    IN IF k > 0 /\ k < Len(ib) /\ at(ib, k) = 58
          /\ p < Len(ib) /\ at(ib, p) = 40
          /\ sc.depth = 0
       THEN [ok |-> TRUE,
             seg |-> Func(slice(ib, 0, k), << slice(ib, k + 1, p), slice(ib, p + 1, sc.j) >>)]
       ELSE [ok |-> FALSE, seg |-> Lit(<<>>)]

\* `let ib = inner.as_bytes();` and the attempt on these bytes
simple_func(inner) ==
    CHOOSE r \in { simple_func_bytes(ib) : ib \in { as_bytes(inner) } } : TRUE

\* the `while i < bytes.len()` loop of Template::parse_simple from index i
RECURSIVE parse_simple_from(_, _, _, _)
parse_simple_from(bytes, i, segs, lit) ==
    IF i >= Len(bytes) THEN OkT(flush(segs, lit))
    ELSE IF at(bytes, i) = 123 /\ i + 1 < Len(bytes) /\ at(bytes, i + 1) = 123     \* {{
    THEN LET j == close_braces(bytes, i + 2)
             inner == trim(slice(bytes, i + 2, j))
             fn == simple_func(inner)
         IN IF j = -1                                           \* no closing: literal {{
            THEN parse_simple_from(bytes, i + 2, flush(segs, lit), <<123, 123>>)
            ELSE IF inner # <<>> /\ inner[1] = 33               \* comment
            THEN parse_simple_from(bytes, j + 2, flush(segs, lit), <<>>)
            ELSE IF simple_var(inner)
            THEN parse_simple_from(bytes, j + 2, Append(flush(segs, lit), Var(inner)), <<>>)
            ELSE IF fn.ok
            THEN parse_simple_from(bytes, j + 2, Append(flush(segs, lit), fn.seg), <<>>)
            ELSE parse_simple_from(bytes, j + 2, flush(segs, lit),
                                   <<123, 123>> \o inner \o <<125, 125>>)
    ELSE parse_simple_from(bytes, i + len_utf8(at(bytes, i)), segs, Append(lit, at(bytes, i)))

\* Template::parse_simple(input)
parse_simple(str) == parse_simple_from(as_bytes(str), 0, <<>>, <<>>)

(***************************************************************************)
(* The parsers followed one iteration of their `while i < bytes.len()`     *)
(* loop at a time (tmpl/mod.rs).  The inner loops of an iteration (the     *)
(* scans for `}`, `}}`, the end of a name or of an argument, the balancing *)
(* parenthesis) each run an index up to bytes.len() at most.               *)
(***************************************************************************)
\* the loop goes on at index i2 with segs2 and lit2
Continue(bytes, i2, segs2, lit2) ==
    [done |-> FALSE, i |-> i2, segs |-> segs2, lit |-> lit2, res |-> NoResult]

\* the function returns r
Return(r) == [done |-> TRUE, i |-> 0, segs |-> <<>>, lit |-> <<>>, res |-> r]

\* Template::parse: the test of the `while` and one iteration of its body at index i
parse_step(bytes, i, segs, lit) ==
    IF i >= Len(bytes) THEN Return(OkT(flush(segs, lit)))
    ELSE IF at(bytes, i) = 36                                   \* '$'
    THEN IF i + 1 < Len(bytes) /\ at(bytes, i + 1) = 36         \* $$
         THEN Continue(bytes, i + 2, segs, Append(lit, 36))
         ELSE IF i + 1 < Len(bytes) /\ at(bytes, i + 1) = 123   \* ${
         THEN LET close == brace_close(bytes, i + 2)
                  var == slice(bytes, i + 2, close)
              IN IF close >= Len(bytes) THEN Return(Err("ResolveError"))            \* unclosed
                 ELSE IF ~valid_var(var) THEN Return(Err("ResolveError"))           \* invalid name
                 ELSE Continue(bytes, close + 1, Append(flush(segs, lit), Var(var)), <<>>)
         ELSE Continue(bytes, i + 1, segs, Append(lit, 36))   \* lone '$'
    ELSE Continue(bytes, i + len_utf8(at(bytes, i)), segs, Append(lit, at(bytes, i)))

\* pushes the literal `%` of the fallback without `i += 1`
parse_jynx_step_stuck(bytes, i, segs, lit) ==
    IF i >= Len(bytes) THEN Return(OkT(flush(segs, lit)))
    ELSE IF at(bytes, i) = 36                                   \* '$'
    THEN IF i + 1 < Len(bytes) /\ at(bytes, i + 1) = 36
         THEN Continue(bytes, i + 2, segs, Append(lit, 36))
         ELSE IF i + 1 < Len(bytes) /\ at(bytes, i + 1) = 123
         THEN LET close == brace_close(bytes, i + 2)
                  var == slice(bytes, i + 2, close)
              IN IF close >= Len(bytes) THEN Return(Err("ResolveError"))
                 ELSE IF ~valid_var(var) THEN Return(Err("ResolveError"))
                 ELSE Continue(bytes, close + 1,
                                      Append(flush(segs, lit), Var(var)), <<>>)
         ELSE Continue(bytes, i + 1, segs, Append(lit, 36))
    ELSE IF at(bytes, i) = 37                                   \* '%'
    THEN LET j1 == name_end(bytes, i + 1)
             j2 == arg_end(bytes, j1 + 1)
             sc == scan_parens(bytes, j2 + 1, 1)
             literal == Continue(bytes, i, segs, Append(lit, 37))
         IN IF j1 = i + 1 THEN literal                                      \* no name
            ELSE IF j1 >= Len(bytes) \/ at(bytes, j1) # 58 THEN literal     \* no ':'
            ELSE IF j2 >= Len(bytes) \/ at(bytes, j2) # 40 THEN literal     \* no '('
            ELSE IF sc.depth # 0 THEN Return(Err("ResolveError"))                   \* unclosed (
            ELSE Continue(bytes, sc.j + 1,
                     Append(flush(segs, lit),
                            Func(slice(bytes, i + 1, j1),
                                 << slice(bytes, j1 + 1, j2), slice(bytes, j2 + 1, sc.j) >>)),
                     <<>>)
    ELSE Continue(bytes, i + len_utf8(at(bytes, i)), segs, Append(lit, at(bytes, i)))

\* Template::parse_jynx: the test of the `while` and one iteration of its body at index i
parse_jynx_step(bytes, i, segs, lit) ==
    IF i >= Len(bytes) THEN Return(OkT(flush(segs, lit)))
    ELSE IF at(bytes, i) = 36                                   \* '$'
    THEN IF i + 1 < Len(bytes) /\ at(bytes, i + 1) = 36
         THEN Continue(bytes, i + 2, segs, Append(lit, 36))
         ELSE IF i + 1 < Len(bytes) /\ at(bytes, i + 1) = 123
         THEN LET close == brace_close(bytes, i + 2)
                  var == slice(bytes, i + 2, close)
              IN IF close >= Len(bytes) THEN Return(Err("ResolveError"))
                 ELSE IF ~valid_var(var) THEN Return(Err("ResolveError"))
                 ELSE Continue(bytes, close + 1,
                                      Append(flush(segs, lit), Var(var)), <<>>)
         ELSE Continue(bytes, i + 1, segs, Append(lit, 36))
    ELSE IF at(bytes, i) = 37                                   \* '%'
    THEN LET j1 == name_end(bytes, i + 1)
             j2 == arg_end(bytes, j1 + 1)
             sc == scan_parens(bytes, j2 + 1, 1)
             literal == Continue(bytes, i + 1, segs, Append(lit, 37))
         IN IF j1 = i + 1 THEN literal                                      \* no name
            ELSE IF j1 >= Len(bytes) \/ at(bytes, j1) # 58 THEN literal     \* no ':'
            ELSE IF j2 >= Len(bytes) \/ at(bytes, j2) # 40 THEN literal     \* no '('
            ELSE IF sc.depth # 0 THEN Return(Err("ResolveError"))                   \* unclosed (
            ELSE Continue(bytes, sc.j + 1,
                     Append(flush(segs, lit),
                            Func(slice(bytes, i + 1, j1),
                                 << slice(bytes, j1 + 1, j2), slice(bytes, j2 + 1, sc.j) >>)),
                     <<>>)
    ELSE Continue(bytes, i + len_utf8(at(bytes, i)), segs, Append(lit, at(bytes, i)))

\* Template::parse_simple: the test of the `while` and one iteration of its body at index i
parse_simple_step(bytes, i, segs, lit) ==
    IF i >= Len(bytes) THEN Return(OkT(flush(segs, lit)))
    ELSE IF at(bytes, i) = 123 /\ i + 1 < Len(bytes) /\ at(bytes, i + 1) = 123     \* {{
    THEN LET j == close_braces(bytes, i + 2)
             inner == trim(slice(bytes, i + 2, j))
             fn == simple_func(inner)
         IN IF j = -1                                           \* no closing: literal {{
            THEN Continue(bytes, i + 2, flush(segs, lit), <<123, 123>>)
            ELSE IF inner # <<>> /\ inner[1] = 33               \* comment
            THEN Continue(bytes, j + 2, flush(segs, lit), <<>>)
            ELSE IF simple_var(inner)
            THEN Continue(bytes, j + 2, Append(flush(segs, lit), Var(inner)), <<>>)
            ELSE IF fn.ok
            THEN Continue(bytes, j + 2, Append(flush(segs, lit), fn.seg), <<>>)
            ELSE Continue(bytes, j + 2, flush(segs, lit),
                                   <<123, 123>> \o inner \o <<125, 125>>)
    ELSE Continue(bytes, i + len_utf8(at(bytes, i)), segs, Append(lit, at(bytes, i)))

(***************************************************************************)
(* Specification of the scans: the caller starts one parser on a source    *)
(* and the parser runs its loop to the end.  A parser that is running      *)
(* takes its next iteration (weak fairness): nothing else runs.            *)
(***************************************************************************)
\* the pieces of the sources:  a  e-acute  $  ${  }  %  f:a(  )  {{  }}
ScanTokens ==
    { <<97>>, <<233>>, <<36>>, <<36, 123>>, <<125>>, <<37>>, <<102, 58, 97, 40>>, <<41>>,
      <<123, 123>>, <<125, 125>> }

ScanInputs == { Concat(ts) : ts \in UNION { [1..k -> ScanTokens] : k \in 0..MaxScan } }

InitScan ==
    /\ s = <<>>
    /\ cmd = DefaultCmd
    /\ pipe = <<>>
    /\ input \in ScanInputs
    /\ tpl = NoResult
    /\ resolvers = NoResolvers
    /\ op = "init"
    /\ out = NoResult
    /\ calls = <<>>
    /\ scan = NoScan

\* the call of a parser: `let mut i = 0`, empty segs and lit
ScanStart ==
    /\ op = "init"
    /\ scan.state = "idle"
    /\ \E d \in {"parse", "parse_jynx", "parse_simple"} : op' = d
    /\ scan' = [state |-> "run", i |-> 0, segs |-> <<>>, lit |-> <<>>]
    /\ UNCHANGED <<s, cmd, pipe, input, tpl, resolvers, out, calls>>

\* the effect of one iteration r on the scan and on the result of the parse
Advance(r) ==
    /\ scan' = IF r.done THEN [scan EXCEPT !.state = "done"]
               ELSE [state |-> "run", i |-> r.i, segs |-> r.segs, lit |-> r.lit]
    /\ tpl' = IF r.done THEN r.res ELSE tpl
    /\ UNCHANGED <<s, cmd, pipe, input, resolvers, op, out, calls>>

ParseStep ==
    /\ op = "parse" /\ scan.state = "run"
    /\ \E bytes \in { as_bytes(input) } :
       \E r \in { parse_step(bytes, scan.i, scan.segs, scan.lit) } : Advance(r)

ParseJynxStep ==
    /\ op = "parse_jynx" /\ scan.state = "run"
    /\ \E bytes \in { as_bytes(input) } :
       \E r \in { parse_jynx_step(bytes, scan.i, scan.segs, scan.lit) } : Advance(r)

ParseSimpleStep ==
    /\ op = "parse_simple" /\ scan.state = "run"
    /\ \E bytes \in { as_bytes(input) } :
       \E r \in { parse_simple_step(bytes, scan.i, scan.segs, scan.lit) } : Advance(r)

NextScan == ScanStart \/ ParseStep \/ ParseJynxStep \/ ParseSimpleStep

SpecScan == InitScan /\ [][NextScan]_vars /\ WF_vars(NextScan)

(***************************************************************************)
(* Specification of the parsers and the evaluator: the caller parses one   *)
(* template source in one dialect and renders the Template with a pair of  *)
(* resolvers (easy::render_bash, render_jynx, render_simple).              *)
(***************************************************************************)
\* the pieces the template sources are made of:  a  e-acute  $  {  }  )  %f:a(
Tokens == { <<97>>, <<233>>, <<36>>, <<123>>, <<125>>, <<41>>, <<37, 102, 58, 97, 40>> }

Inputs == { Concat(ts) : ts \in UNION { [1..k -> Tokens] : k \in 0..MaxTokens } }

\* (Vars, EchoFunc) and (NoVar, NoFunc) of the tests, the Store of easy.rs for
\* both, and Vars with a function capability that fails
ResolverPairs ==
    { [vars |-> "Vars", funcs |-> "EchoFunc"], [vars |-> "NoVar", funcs |-> "NoFunc"],
      [vars |-> "Store", funcs |-> "Store"], [vars |-> "Vars", funcs |-> "FailFunc"] }

InitTmpl ==
    /\ s = <<>>
    /\ cmd = DefaultCmd
    /\ pipe = <<>>
    /\ input \in Inputs
    /\ tpl = NoResult
    /\ resolvers = NoResolvers
    /\ op = "init"
    /\ out = NoResult
    /\ calls = <<>>
    /\ scan = NoScan

Parse ==
    /\ op = "init"
    /\ op' = "parse"
    /\ tpl' = parse(input)
    /\ UNCHANGED <<s, cmd, pipe, input, resolvers, out, calls, scan>>

ParseJynx ==
    /\ op = "init"
    /\ op' = "parse_jynx"
    /\ tpl' = parse_jynx(input)
    /\ UNCHANGED <<s, cmd, pipe, input, resolvers, out, calls, scan>>

ParseSimple ==
    /\ op = "init"
    /\ op' = "parse_simple"
    /\ tpl' = parse_simple(input)
    /\ UNCHANGED <<s, cmd, pipe, input, resolvers, out, calls, scan>>

\* `?.render(vars, funcs)`: only a parsed Template is rendered
Render ==
    /\ tpl.ok
    /\ resolvers = NoResolvers
    /\ \E r \in ResolverPairs :
          /\ resolvers' = r
          /\ out' = render(tpl.segs, r.vars, r.funcs).res
          /\ calls' = render(tpl.segs, r.vars, r.funcs).calls
    /\ UNCHANGED <<s, cmd, pipe, input, tpl, op, scan>>

NextTmpl == Parse \/ ParseJynx \/ ParseSimple \/ Render

SpecTmpl == InitTmpl /\ [][NextTmpl]_vars

(***************************************************************************)
(* Specification of the markup dialect: the caller parses one markup       *)
(* source (easy::render_jynx) and renders the Template.                    *)
(***************************************************************************)
\* the pieces the markup sources are made of:  %  f  :  %f:a  (  )  (f)  ${a}  space
MarkupTokens ==
    { <<37>>, <<102>>, <<58>>, <<37, 102, 58, 97>>, <<40>>, <<41>>, <<40, 102, 41>>,
      <<36, 123, 97, 125>>, <<32>> }

\* the source of examples/for_loop.rs:  %for:item(a,b,c)([${item}])(,)
ForExample ==
    << 37, 102, 111, 114, 58, 105, 116, 101, 109, 40, 97, 44, 98, 44, 99, 41,
       40, 91, 36, 123, 105, 116, 101, 109, 125, 93, 41, 40, 44, 41 >>

MarkupInputs ==
    { Concat(ts) : ts \in UNION { [1..k -> MarkupTokens] : k \in 0..MaxMarkup } }
        \cup { ForExample }

InitMarkup ==
    /\ s = <<>>
    /\ cmd = DefaultCmd
    /\ pipe = <<>>
    /\ input \in MarkupInputs
    /\ tpl = NoResult
    /\ resolvers = NoResolvers
    /\ op = "init"
    /\ out = NoResult
    /\ calls = <<>>
    /\ scan = NoScan

NextMarkup == ParseJynx \/ Render

SpecMarkup == InitMarkup /\ [][NextMarkup]_vars

(***************************************************************************)
(* Specification of the double-brace dialect: the caller parses one source *)
(* (easy::render_simple) and renders the Template.                         *)
(***************************************************************************)
\* the pieces of the content of a block:  !  a  .  space  f:a(  )
BlockParts == { <<33>>, <<97>>, <<46>>, <<32>>, <<102, 58, 97, 40>>, <<41>> }

\* one block:  {{ content }}
Blocks ==
    { <<123, 123>> \o Concat(ts) \o <<125, 125>> :
          ts \in UNION { [1..k -> BlockParts] : k \in 0..MaxBlock } }

\* the pieces of the other sources:  {{  }}  a  ?  space
BraceTokens == { <<123, 123>>, <<125, 125>>, <<97>>, <<63>>, <<32>> }

BraceInputs ==
    Blocks \cup { Concat(ts) : ts \in UNION { [1..k -> BraceTokens] : k \in 0..MaxBrace } }

InitBrace ==
    /\ s = <<>>
    /\ cmd = DefaultCmd
    /\ pipe = <<>>
    /\ input \in BraceInputs
    /\ tpl = NoResult
    /\ resolvers = NoResolvers
    /\ op = "init"
    /\ out = NoResult
    /\ calls = <<>>
    /\ scan = NoScan

NextBrace == ParseSimple \/ Render

SpecBrace == InitBrace /\ [][NextBrace]_vars

(***************************************************************************)
(* Specification of the evaluator: the caller parses, in one of the three  *)
(* dialects, a source made of literals, lookups and calls (the `set` call  *)
(* of the Store among them) and renders the Template.                      *)
(***************************************************************************)
\* x  ${a}  %set:a(f)  %set:a(g)  %f:a(f)  {{a}}  {{set:a(f)}}
EvalTokens ==
    { <<120>>, <<36, 123, 97, 125>>,
      <<37, 115, 101, 116, 58, 97, 40, 102, 41>>,
      <<37, 115, 101, 116, 58, 97, 40, 103, 41>>,
      <<37, 102, 58, 97, 40, 102, 41>>,
      <<123, 123, 97, 125, 125>>,
      <<123, 123, 115, 101, 116, 58, 97, 40, 102, 41, 125, 125>> }

EvalInputs == { Concat(ts) : ts \in UNION { [1..k -> EvalTokens] : k \in 0..MaxEval } }

InitEval ==
    /\ s = <<>>
    /\ cmd = DefaultCmd
    /\ pipe = <<>>
    /\ input \in EvalInputs
    /\ tpl = NoResult
    /\ resolvers = NoResolvers
    /\ op = "init"
    /\ out = NoResult
    /\ calls = <<>>
    /\ scan = NoScan

NextEval == Parse \/ ParseJynx \/ ParseSimple \/ Render

SpecEval == InitEval /\ [][NextEval]_vars

(***************************************************************************)
(* Vocabulary of the claims about the templates.                           *)
(***************************************************************************)
Count(str, c) == Cardinality({ i \in 1..Len(str) : str[i] = c })

HasPair(str, c) == \E i \in 1..(Len(str) - 1) : str[i] = c /\ str[i + 1] = c

\* no `$`, no `%` and no `{{`
Plain(str) == Count(str, 36) = 0 /\ Count(str, 37) = 0 /\ ~HasPair(str, 123)

Ascii(str) == \A i \in 1..Len(str) : str[i] < 128

\* every maximal run of `$` has even length: the `$` of str are exactly its `$$` pairs
OnlyEscapedDollars(str) ==
    \A i \in 1..Len(str) :
        (str[i] = 36 /\ (i = 1 \/ str[i - 1] # 36)) =>
            (MinOr({ j \in i..Len(str) : str[j] # 36 }, Len(str) + 1) - i) % 2 = 0

Parsed == op \in {"parse", "parse_jynx", "parse_simple"}

Rendered == Parsed /\ resolvers # NoResolvers

(***************************************************************************)
(* C9: for every string s with no `$`, no `%` and no `{{` (strings with    *)
(* non-ASCII chars included) each of the three parsers returns a template  *)
(* of exactly one literal segment equal to s, and evaluating it with any   *)
(* resolvers returns s unchanged.  (Stated for the non-empty strings: for  *)
(* the empty string the parsers return the template of no segment, which   *)
(* evaluates to the empty string.)                                         *)
(***************************************************************************)
C9_LiteralPassthrough ==
    (Plain(input) /\ input # <<>>) =>
        /\ Parsed => tpl = OkT(<< Lit(input) >>)
        /\ Rendered => out = Ok(input)

\* the same statement for the ASCII strings, the empty one included: it holds
C9_AsciiPassthrough ==
    (Plain(input) /\ Ascii(input)) =>
        /\ Parsed => tpl = OkT(IF input = <<>> THEN <<>> ELSE << Lit(input) >>)
        /\ Rendered => out = Ok(input)

(***************************************************************************)
(* C10: in shell-style and in markup-style templates every `$$` evaluates  *)
(* to exactly one literal `$` and never starts an interpolation, whatever  *)
(* surrounds it, a parenthesized group of a markup call included: a parsed *)
(* source whose `$` all belong to `$$` pairs has no variable segment, and  *)
(* its evaluation, with a function capability that echoes its arguments,   *)
(* holds one `$` per pair.  (Stated for ASCII sources.)                    *)
(***************************************************************************)
C10_DollarEscape ==
    (op \in {"parse", "parse_jynx"} /\ Ascii(input) /\ OnlyEscapedDollars(input)) =>
        /\ tpl.ok => \A n \in 1..Len(tpl.segs) : tpl.segs[n].t # "Var"
        /\ (Rendered /\ resolvers.funcs = "EchoFunc") =>
              /\ out.ok
              /\ 2 * Count(out.text, 36) = Count(input, 36)

\* the same statement without the groups of markup calls: it holds
C10_DollarEscapeOutsideGroups ==
    (/\ op \in {"parse", "parse_jynx"} /\ Ascii(input) /\ OnlyEscapedDollars(input)
     /\ tpl.ok /\ \A n \in 1..Len(tpl.segs) : tpl.segs[n].t = "Func" => Count(tpl.segs[n].args[2], 36) = 0) =>
        /\ \A n \in 1..Len(tpl.segs) : tpl.segs[n].t # "Var"
        /\ (Rendered /\ resolvers.funcs = "EchoFunc") =>
              /\ out.ok
              /\ 2 * Count(out.text, 36) = Count(input, 36)

(***************************************************************************)
(* Vocabulary of the claims about interpolation.                           *)
(***************************************************************************)
\* the chars of the pattern [A-Za-z0-9_-]
PatternChar(c) == c \in (65..90) \cup (97..122) \cup (48..57) \cup {95, 45}

\* a letter or an underscore
IdentStart(c) == c \in (65..90) \cup (97..122) \cup {95}

\* the `$` at i is not the second `$` of a `$$`: the run of `$` it ends is odd
Unescaped(str, i) ==
    /\ str[i] = 36
    /\ (i - MinOr({ i - d : d \in { d \in 0..(i - 1) : str[i - d] # 36 } }, 0)) % 2 = 1

\* an unescaped `${` at i with no `}` after it
UnclosedAt(str, i) ==
    /\ i < Len(str)
    /\ Unescaped(str, i)
    /\ str[i + 1] = 123
    /\ \A j \in (i + 2)..Len(str) : str[j] # 125

\* str is `${X}` for an X without `}`
IsInterp(str) ==
    /\ Len(str) >= 3
    /\ str[1] = 36 /\ str[2] = 123 /\ str[Len(str)] = 125
    /\ \A j \in 3..(Len(str) - 1) : str[j] # 125

\* the length of the longest identifier str starts with (0 when there is none)
IdentLen(str) ==
    IF str = <<>> \/ ~IdentStart(str[1]) THEN 0
    ELSE MinOr({ j \in 1..Len(str) : ~PatternChar(str[j]) }, Len(str) + 1) - 1

(***************************************************************************)
(* C11: a shell-style or markup-style parse of an input in which a `${`    *)
(* that no `$$` escape produced has no `}` after it returns an error and   *)
(* no template.                                                            *)
(***************************************************************************)
C11_UnclosedInterpolation ==
    (op \in {"parse", "parse_jynx"} /\ \E i \in 1..Len(input) : UnclosedAt(input, i)) =>
        ~tpl.ok

\* the same statement for the shell-style parser alone: it holds
C11_UnclosedShell ==
    (op = "parse" /\ \E i \in 1..Len(input) : UnclosedAt(input, i)) => ~tpl.ok

(***************************************************************************)
(* C12: a shell-style or markup-style parse of `${X}` is the template of   *)
(* the one variable reference X exactly when X is a non-empty string over  *)
(* [A-Za-z0-9_-]; for every other X, the empty one included, it fails.     *)
(***************************************************************************)
C12_NameValidation ==
    (op \in {"parse", "parse_jynx"} /\ IsInterp(input)) =>
        LET X == SubSeq(input, 3, Len(input) - 1)
        IN IF X # <<>> /\ \A n \in 1..Len(X) : PatternChar(X[n])
           THEN tpl = OkT(<< Var(X) >>)
           ELSE ~tpl.ok

\* the same statement for the non-empty X: it holds
C12_NonEmptyNameValidation ==
    (op \in {"parse", "parse_jynx"} /\ IsInterp(input) /\ Len(input) > 3) =>
        LET X == SubSeq(input, 3, Len(input) - 1)
        IN IF \A n \in 1..Len(X) : PatternChar(X[n])
           THEN tpl = OkT(<< Var(X) >>)
           ELSE ~tpl.ok

(***************************************************************************)
(* C13: in a shell-style template a `$` followed by an identifier is a     *)
(* reference to the variable of the longest such identifier and evaluates  *)
(* to its value; a `$` followed by neither an identifier start, `{` nor    *)
(* `$` stays a literal `$`.  (Stated for the sources `$` + rest whose rest *)
(* is ASCII and holds no further `$`, evaluated with the resolver that     *)
(* gives `<NAME>` for NAME.)                                               *)
(***************************************************************************)
C13_BareName ==
    LET rest == Tail(input)
        n == IdentLen(rest)
        id == SubSeq(rest, 1, n)
        after == SubSeq(rest, n + 1, Len(rest))
    IN (/\ op = "parse" /\ input # <<>> /\ input[1] = 36
        /\ Ascii(rest) /\ Count(rest, 36) = 0
        /\ (rest = <<>> \/ rest[1] # 123)) =>
           /\ tpl.ok
           /\ n > 0 => tpl.segs[1] = Var(id)
           /\ (Rendered /\ resolvers.vars = "Vars") =>
                 out = Ok(IF n > 0 THEN <<60>> \o id \o <<62>> \o after ELSE input)

\* the second half alone, the lone `$`: it holds
C13_LoneDollar ==
    LET rest == Tail(input)
    IN (/\ op = "parse" /\ input # <<>> /\ input[1] = 36
        /\ Ascii(rest) /\ Count(rest, 36) = 0
        /\ (rest = <<>> \/ (rest[1] # 123 /\ ~IdentStart(rest[1])))) =>
           /\ tpl = OkT(<< Lit(input) >>)
           /\ Rendered => out = Ok(input)

(***************************************************************************)
(* Vocabulary of the claims about the markup dialect.                      *)
(***************************************************************************)
Whitespace(c) == c \in {9, 10, 11, 12, 13, 32}

\* at i: `%`, a non-empty name, `:`, an argument token, `(`;  the index of that `(`
HeadOpens(str, i) ==
    { j2 \in (i + 3)..Len(str) :
        /\ str[i] = 37
        /\ str[j2] = 40
        /\ \E j1 \in (i + 2)..(j2 - 1) :
              /\ str[j1] = 58
              /\ \A k \in (i + 1)..(j1 - 1) : PatternChar(str[k])
              /\ \A k \in (j1 + 1)..(j2 - 1) : str[k] # 40 /\ ~Whitespace(str[k]) }

WellFormedHead(str, i) == HeadOpens(str, i) # {}

\* the number of `(` less the number of `)` in str[a..b]
Depth(str, a, b) ==
    Cardinality({ k \in a..b : str[k] = 40 }) - Cardinality({ k \in a..b : str[k] = 41 })

\* the index of the `)` that balances the `(` at a, or 0 when none does
CloseOf(str, a) == MinOr({ e \in (a + 1)..Len(str) : Depth(str, a, e) = 0 }, 0)

\* a `${` that is not closed, or closed around a name outside the pattern
MalformedInterp(str) ==
    \E i \in 1..(Len(str) - 1) :
        /\ str[i] = 36 /\ str[i + 1] = 123
        /\ LET close == MinOr({ j \in (i + 2)..Len(str) : str[j] = 125 }, 0)
           IN close = 0 \/ \E k \in (i + 2)..(close - 1) : ~PatternChar(str[k])

\* the result r of a parse with the literal text pre put in front of it
PrependLit(pre, r) ==
    IF ~r.ok THEN r
    ELSE IF r.segs # <<>> /\ r.segs[1].t = "Lit"
    THEN OkT(<< Lit(pre \o r.segs[1].s) >> \o Tail(r.segs))
    ELSE OkT(<< Lit(pre) >> \o r.segs)

\* the index of the first `%` of str, or 0
FirstPercent(str) == MinOr({ i \in 1..Len(str) : str[i] = 37 }, 0)

(***************************************************************************)
(* C14: where a `%` is not followed by a non-empty name, `:` and an        *)
(* argument token ending at `(`, the markup parser emits the `%` as a      *)
(* literal char and resumes scanning at the next char without failing; the *)
(* parse fails only when a well-formed `%name:arg(` opens a group whose    *)
(* parentheses never balance, or on a malformed `${`.  (The fallback is    *)
(* stated for the first `%` of a source with no `$` before it: the result  *)
(* is the result of parsing what follows the `%`, with the text up to and  *)
(* including the `%` put in front as literal text.)                        *)
(***************************************************************************)
C14_PermissiveFallback ==
    op = "parse_jynx" =>
        LET p == FirstPercent(input)
        IN /\ (/\ p > 0
               /\ ~WellFormedHead(input, p)
               /\ \A k \in 1..(p - 1) : input[k] # 36) =>
                  tpl = PrependLit(SubSeq(input, 1, p),
                                   parse_jynx(SubSeq(input, p + 1, Len(input))))
           /\ ~tpl.ok =>
                 \/ MalformedInterp(input)
                 \/ \E i \in 1..Len(input) :
                       /\ WellFormedHead(input, i)
                       /\ \E j \in HeadOpens(input, i) : CloseOf(input, j) = 0

\* a source that starts with a `%` that opens no call and goes on with a call
C14_Witness ==
    /\ op = "parse_jynx"
    /\ Len(input) > 1 /\ input[1] = 37
    /\ ~WellFormedHead(input, 1)
    /\ tpl.ok
    /\ \E n \in 1..Len(tpl.segs) : tpl.segs[n].t = "Func"
    /\ tpl.segs[1].t = "Lit" /\ tpl.segs[1].s[1] = 37

(***************************************************************************)
(* Vocabulary of the claims about markup calls.                            *)
(***************************************************************************)
\* the number of groups `(g1)(g2)...(gn)` that str[a..] consists of, a the index
\* of the first `(`;  0 when str[a..] is not a run of balanced groups
RECURSIVE GroupCount(_, _)
GroupCount(str, a) ==
    LET c == CloseOf(str, a)
    IN IF c = 0 THEN 0
       ELSE IF c = Len(str) THEN 1
       ELSE IF str[c + 1] # 40 THEN 0
       ELSE LET more == GroupCount(str, c + 1)
            IN IF more = 0 THEN 0 ELSE more + 1

\* str is one call `%name:arg(g1)...(gn)`: the index of its first `(`, or 0
CallOpen(str) ==
    IF str # <<>> /\ WellFormedHead(str, 1)
    THEN LET j == CHOOSE j \in HeadOpens(str, 1) : TRUE
         IN IF GroupCount(str, j) > 0 THEN j ELSE 0
    ELSE 0

CallColon(str) == MinOr({ j \in 1..Len(str) : str[j] = 58 }, 0)

CallName(str) == SubSeq(str, 2, CallColon(str) - 1)

CallArg(str) == SubSeq(str, CallColon(str) + 1, CallOpen(str) - 1)

\* the text of the first group of the call
CallGroup(str) == SubSeq(str, CallOpen(str) + 1, CloseOf(str, CallOpen(str)) - 1)

ForName == <<102, 111, 114>>                                    \* "for"

(***************************************************************************)
(* C15: for a well-formed markup call `%name:arg(g1)(g2)...(gn)` with      *)
(* n >= 1 balanced groups and a name other than `for` the parser produces  *)
(* one function call whose argument list has exactly n + 1 entries, the    *)
(* arg token first and one entry per group; parentheses nested in a group  *)
(* are content; no group after the first is left as literal text.         *)
(***************************************************************************)
C15_CallArguments ==
    (op = "parse_jynx" /\ CallOpen(input) > 0 /\ CallName(input) # ForName) =>
        /\ tpl.ok
        /\ Len(tpl.segs) = 1
        /\ tpl.segs[1].t = "Func"
        /\ tpl.segs[1].s = CallName(input)
        /\ Len(tpl.segs[1].args) = GroupCount(input, CallOpen(input)) + 1
        /\ tpl.segs[1].args[1] = CallArg(input)

\* the same statement for the calls of one group, with the text of the group
\* as the second argument: it holds
C15_OneGroup ==
    (/\ op = "parse_jynx" /\ CallOpen(input) > 0 /\ CallName(input) # ForName
     /\ GroupCount(input, CallOpen(input)) = 1) =>
        tpl = OkT(<< Func(CallName(input), << CallArg(input), CallGroup(input) >>) >>)

(***************************************************************************)
(* C16: the group of a markup call is parsed as a markup template and      *)
(* evaluated before the function capability is invoked: for a call of one  *)
(* group, `%f:a(${x})` among them, the capability is called once, last,    *)
(* with the arg token and the value of the group, not its source text.     *)
(***************************************************************************)
C16_CallByValue ==
    (/\ Rendered /\ op = "parse_jynx" /\ CallOpen(input) > 0
     /\ CallName(input) # ForName
     /\ GroupCount(input, CallOpen(input)) = 1
     /\ parse_jynx(CallGroup(input)).ok
     /\ render(parse_jynx(CallGroup(input)).segs, resolvers.vars, resolvers.funcs).res.ok) =>
        LET value == render(parse_jynx(CallGroup(input)).segs,
                            resolvers.vars, resolvers.funcs).res.text
            made == { n \in 1..Len(calls) :
                        calls[n].fn = "call" /\ calls[n].name = CallName(input)
                        /\ Len(calls[n].args) = 2 /\ calls[n].args[1] = CallArg(input) }
        IN /\ calls # <<>>
           /\ Len(calls) \in made
           /\ calls[Len(calls)].args[2] = value

\* the same statement for the groups without `$` and `%`: it holds
C16_LiteralGroup ==
    (/\ Rendered /\ op = "parse_jynx" /\ CallOpen(input) > 0
     /\ CallName(input) # ForName
     /\ GroupCount(input, CallOpen(input)) = 1
     /\ Count(CallGroup(input), 36) = 0 /\ Count(CallGroup(input), 37) = 0) =>
        /\ Len(calls) = 1
        /\ calls[1] = FuncCall(1, CallName(input), << CallArg(input), CallGroup(input) >>)

(***************************************************************************)
(* Vocabulary of the claims about evaluation.                              *)
(***************************************************************************)
\* the index of the first function segment of the parsed template, or 0
FirstFunc == MinOr({ n \in 1..Len(tpl.segs) : tpl.segs[n].t = "Func" }, 0)

(***************************************************************************)
(* C19: if the function capability returns a failure for a function        *)
(* segment, evaluation returns that same failure, returns no output text   *)
(* (the text of the earlier segments included) and invokes no resolver for *)
(* any later segment.  (With a capability that fails on every call: the    *)
(* failing segment is the first function segment.)                         *)
(***************************************************************************)
C19_FailureAborts ==
    (Rendered /\ resolvers.funcs = "FailFunc" /\ FirstFunc > 0) =>
        LET seg == tpl.segs[FirstFunc]
        IN /\ out = func_call("FailFunc", seg.s, seg.args)
           /\ ~out.ok
           /\ "text" \notin DOMAIN out
           /\ calls # <<>>
           /\ calls[Len(calls)] = FuncCall(FirstFunc, seg.s, seg.args)
           /\ \A n \in 1..Len(calls) : calls[n].seg <= FirstFunc
           /\ \A n \in 1..(FirstFunc - 1) :
                 tpl.segs[n].t = "Var" => \E c \in 1..Len(calls) : calls[c].seg = n

\* a failing call between a variable that was looked up and one that was not
C19_Witness ==
    /\ Rendered /\ resolvers.funcs = "FailFunc" /\ FirstFunc > 0
    /\ ~out.ok
    /\ \E n \in 1..(FirstFunc - 1) : tpl.segs[n].t = "Var"
    /\ \E n \in (FirstFunc + 1)..Len(tpl.segs) : tpl.segs[n].t = "Var"
    /\ Len(calls) = 2

(***************************************************************************)
(* C20: parsing `%for:item(a,b,c)([${item}])(,)` in markup style and       *)
(* evaluating it with `item` unbound in the resolver of the caller yields  *)
(* `[a],[b],[c]`: a call named `for` is an iteration over the items of the *)
(* first group, the second group evaluated once per item with the loop     *)
(* variable bound to it, the results joined by the third group.            *)
(***************************************************************************)
C20_Iteration ==
    (/\ Rendered /\ op = "parse_jynx" /\ input = ForExample
     /\ resolvers.vars \in {"Store", "NoVar"}) =>
        out = Ok(<< 91, 97, 93, 44, 91, 98, 93, 44, 91, 99, 93 >>)     \* [a],[b],[c]

(***************************************************************************)
(* Vocabulary of the claims about the double-brace dialect.                *)
(***************************************************************************)
\* the index of the first `}}` at or after a, or 0
FirstClose(str, a) ==
    MinOr({ j \in a..(Len(str) - 1) : str[j] = 125 /\ str[j + 1] = 125 }, 0)

\* the indices where a `{{` with a following `}}` starts
BlockStarts(str) ==
    { i \in 1..(Len(str) - 3) :
        str[i] = 123 /\ str[i + 1] = 123 /\ FirstClose(str, i + 2) > 0 }

\* the text between the `{{` at i and the first following `}}`
BlockText(str, i) == SubSeq(str, i + 2, FirstClose(str, i + 2) - 1)

\* str without the whitespace around it
Stripped(str) ==
    LET solid == { k \in 1..Len(str) : ~Whitespace(str[k]) }
    IN IF solid = {} THEN <<>>
       ELSE SubSeq(str, MinOr(solid, 0), -MinOr({ -k : k \in solid }, 0))

IsComment(c) == c # <<>> /\ c[1] = 33

\* [A-Za-z0-9_.-]+
IsVarName(c) == c # <<>> /\ \A k \in 1..Len(c) : PatternChar(c[k]) \/ c[k] = 46

\* c starts with name:arg(text) with balanced parentheses
StartsWithCall(c) ==
    /\ c # <<>>
    /\ WellFormedHead(<<37>> \o c, 1)
    /\ \E j \in HeadOpens(<<37>> \o c, 1) : CloseOf(<<37>> \o c, j) > 0

\* c is name:arg(text) with balanced parentheses
IsCallShape(c) == c # <<>> /\ CallOpen(<<37>> \o c) > 0 /\ GroupCount(<<37>> \o c, CallOpen(<<37>> \o c)) = 1

\* str is one block `{{...}}`
IsBlock(str) == 1 \in BlockStarts(str) /\ FirstClose(str, 3) = Len(str) - 1

(***************************************************************************)
(* C17: the content between `{{` and the first following `}}` (the         *)
(* whitespace around it aside) is classified in this order: content that   *)
(* starts with `!` is a comment and gives no segment and no output;        *)
(* otherwise content that matches [A-Za-z0-9_.-]+ is a variable reference  *)
(* of that name; otherwise content of the shape name:arg(text) with        *)
(* balanced parentheses is a call of name with the arguments arg and text; *)
(* only content matching none of these is left as literal text.  (Stated   *)
(* for the sources that are one block.)                                    *)
(***************************************************************************)
C17_Classification ==
    (op = "parse_simple" /\ IsBlock(input)) =>
        LET c == Stripped(BlockText(input, 1))
            m == <<37>> \o c
        IN IF IsComment(c)
           THEN tpl = OkT(<<>>) /\ (Rendered => (out = Ok(<<>>) /\ calls = <<>>))
           ELSE IF IsVarName(c) THEN tpl = OkT(<< Var(c) >>)
           ELSE IF IsCallShape(c)
           THEN tpl = OkT(<< Func(CallName(m), << CallArg(m), CallGroup(m) >>) >>)
           ELSE tpl.ok /\ \A n \in 1..Len(tpl.segs) : tpl.segs[n].t = "Lit"

\* the same statement with every content that starts with name:arg(text) taken
\* as a call, whatever follows the closing parenthesis: it holds
C17_ClassificationByPrefix ==
    (op = "parse_simple" /\ IsBlock(input)) =>
        LET c == Stripped(BlockText(input, 1))
            m == <<37>> \o c
            j == CHOOSE j \in HeadOpens(m, 1) : TRUE
        IN IF IsComment(c)
           THEN tpl = OkT(<<>>) /\ (Rendered => (out = Ok(<<>>) /\ calls = <<>>))
           ELSE IF IsVarName(c) THEN tpl = OkT(<< Var(c) >>)
           ELSE IF StartsWithCall(c)
           THEN tpl = OkT(<< Func(CallName(m),
                                  << SubSeq(m, CallColon(m) + 1, j - 1),
                                     SubSeq(m, j + 1, CloseOf(m, j) - 1) >>) >>)
           ELSE tpl.ok /\ \A n \in 1..Len(tpl.segs) : tpl.segs[n].t = "Lit"

(***************************************************************************)
(* C18: for every source in which no `{{...}}` block is a comment, a       *)
(* variable or a call, the double-brace parse succeeds and evaluating the  *)
(* result returns the source unchanged: each unclassified block is emitted *)
(* whole, the whitespace around its inner text included, and an            *)
(* unterminated `{{` is emitted as the literal `{{`, never as an error.    *)
(* (Stated for the ASCII sources; a block that starts with a call is left  *)
(* aside.)                                                                 *)
(***************************************************************************)
C18_LiteralPreservation ==
    (/\ op = "parse_simple"
     /\ \A i \in BlockStarts(input) :
           LET c == Stripped(BlockText(input, i))
           IN ~IsComment(c) /\ ~IsVarName(c) /\ ~StartsWithCall(c)) =>
        /\ tpl.ok
        /\ \A n \in 1..Len(tpl.segs) : tpl.segs[n].t = "Lit"
        /\ Rendered => out = Ok(input)

\* the same statement for the sources whose blocks have no whitespace around
\* their inner text: it holds
C18_TightBlocks ==
    (/\ op = "parse_simple"
     /\ \A i \in BlockStarts(input) :
           LET c == BlockText(input, i)
           IN /\ ~IsComment(c) /\ ~IsVarName(c) /\ ~StartsWithCall(c)
              /\ Stripped(c) = c) =>
        /\ tpl.ok
        /\ \A n \in 1..Len(tpl.segs) : tpl.segs[n].t = "Lit"
        /\ Rendered => out = Ok(input)

(***************************************************************************)
(* Vocabulary of the claims about the order of evaluation.                 *)
(***************************************************************************)
SetName == <<115, 101, 116>>                                    \* "set"

\* the indices of the segments that reach a resolver, in template order
ResolvedSegs(segs) == { n \in 1..Len(segs) : segs[n].t # "Lit" }

\* the k-th least element of a set of numbers
Nth(S, k) == CHOOSE x \in S : Cardinality({ y \in S : y <= x }) = k

\* the segments before n that set the key k in a store
SettersBefore(segs, n, k) ==
    { j \in 1..(n - 1) : /\ segs[j].t = "Func" /\ segs[j].s = SetName
                         /\ Len(segs[j].args) >= 2 /\ segs[j].args[1] = k }

\* what segment n contributes to the output with the resolvers r
Piece(segs, n, r) ==
    IF segs[n].t = "Lit" THEN segs[n].s
    ELSE IF segs[n].t = "Var"
    THEN IF r.vars = "Vars" THEN <<60>> \o segs[n].s \o <<62>>
         ELSE IF r.vars = "Store" /\ r.funcs = "Store"
                   /\ SettersBefore(segs, n, segs[n].s) # {}
         THEN segs[-MinOr({ -j : j \in SettersBefore(segs, n, segs[n].s) }, 0)].args[2]
         ELSE <<>>                                              \* the lookup misses
    ELSE IF r.funcs = "EchoFunc"
    THEN <<60>> \o segs[n].s \o <<58>> \o segs[n].args[1] \o <<58>> \o segs[n].args[2] \o <<62>>
    ELSE <<>>

(***************************************************************************)
(* C21: evaluation visits the segments in template order: the output is    *)
(* the in-order concatenation of the literal text, the looked-up values    *)
(* (the empty string when the lookup misses) and the function results, and *)
(* the resolver calls are made in the order of their segments, one per     *)
(* variable or function segment, so that with a store-backed resolver a    *)
(* `set` made by an earlier segment is seen by a later lookup and by no    *)
(* earlier one.  (Evaluations whose function capability fails are C19's.)  *)
(***************************************************************************)
C21_EvaluationOrder ==
    (Rendered /\ resolvers.funcs # "FailFunc") =>
        LET segs == tpl.segs
            R == ResolvedSegs(segs)
        IN /\ out = Ok(Concat([n \in 1..Len(segs) |-> Piece(segs, n, resolvers)]))
           /\ Len(calls) = Cardinality(R)
           /\ \A k \in 1..Len(calls) :
                 LET n == Nth(R, k)
                 IN calls[k] = IF segs[n].t = "Var" THEN GetCall(n, segs[n].s)
                               ELSE FuncCall(n, segs[n].s, segs[n].args)

\* a lookup that misses, a `set`, and a lookup that sees it
C21_Witness ==
    /\ Rendered /\ resolvers.vars = "Store"
    /\ Len(tpl.segs) = 3
    /\ tpl.segs[1].t = "Var" /\ tpl.segs[2].t = "Func" /\ tpl.segs[3].t = "Var"
    /\ tpl.segs[2].s = SetName /\ tpl.segs[2].args[1] = tpl.segs[1].s
    /\ tpl.segs[3].s = tpl.segs[1].s
    /\ out = Ok(tpl.segs[2].args[2])
    /\ out.text # <<>>
    /\ Len(calls) = 3

(***************************************************************************)
(* C22: for every PipelineSpec, Planner::plan over a WinRenderer returns   *)
(* the same string as WinRenderer's own render_pipe_plan: the commands     *)
(* with their `  # timeout=..., retries=...` annotations and the trailing  *)
(* ` &` when the background flag of the last command is set.               *)
(***************************************************************************)
C22_PlanEntryPoints ==
    op = "planner_plan_win" =>
        /\ out = win_render_pipe_plan(pipe)
        /\ (out.ok /\ pipe # <<>>) =>
              LET last == pipe[Len(pipe)]
                  Ends(str, suffix) ==
                      /\ Len(str) >= Len(suffix)
                      /\ SubSeq(str, Len(str) - Len(suffix) + 1, Len(str)) = suffix
              IN /\ last.flags.background => Ends(out.text, <<32, 38>>)
                 /\ (~last.flags.background /\ plan_metas(last.flags) # <<>>) =>
                       Ends(out.text, <<32, 32, 35, 32>> \o join(plan_metas(last.flags), <<44, 32>>))

\* the same statement for the pipelines without hints and background flag: it holds
C22_PlainPipelines ==
    (/\ op = "planner_plan_win"
     /\ \A i \in 1..Len(pipe) : pipe[i].flags = DefaultFlags) =>
        out = win_render_pipe_plan(pipe)

(***************************************************************************)
(* C23: each dialect parser terminates on every finite input, with a       *)
(* template or an error: every iteration of the scan either returns or     *)
(* strictly advances the scan position, the fallback paths that go on      *)
(* after a literal `%` or a literal `{{` included; the scan ends, and it   *)
(* ends with the result of the parser.                                     *)
(***************************************************************************)
C23_Termination ==
    /\ [][scan.state = "run" => (scan'.state = "done" \/ scan'.i > scan.i)]_vars
    /\ <>(scan.state = "done")
    /\ [](scan.state = "done" =>
             /\ op = "parse" => tpl = parse(input)
             /\ op = "parse_jynx" => tpl = parse_jynx(input)
             /\ op = "parse_simple" => tpl = parse_simple(input))

\* a markup scan that went on after a literal `%` and ended with a template
C23_Witness ==
    /\ scan.state = "done"
    /\ op = "parse_jynx"
    /\ tpl.ok
    /\ Count(input, 37) > 0
    /\ \E n \in 1..Len(tpl.segs) : tpl.segs[n].t = "Lit" /\ Count(tpl.segs[n].s, 37) > 0
    /\ scan.i >= Len(as_bytes(input))

\* a double-brace scan that went on after the literal `{{` of an unterminated block
C23_WitnessBrace ==
    /\ scan.state = "done"
    /\ op = "parse_simple"
    /\ HasPair(input, 123) /\ BlockStarts(input) = {}
    /\ tpl = OkT(<< Lit(input) >>)

====
